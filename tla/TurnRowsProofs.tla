---------------------------- MODULE TurnRowsProofs ----------------------------
(***************************************************************************)
(* What the rows of chats, turns and approvals tell, for any chats, turns, *)
(* leases and capacity: a live turn can be stopped, the three tables agree *)
(* at all times and after every restart, and turns, slots and processes    *)
(* together keep the promise of LeasedTurns.                               *)
(***************************************************************************)
EXTENDS TaskSupervisorProofs

Busy == {"running", "awaiting_approval"}

IsLive(t) == turnStatus[t] \in NonTerminal

\* What shows that a live turn is not forgotten.
Holds(t) == request[t] # "none" \/ IsPending(t) \/ IsCurrent(t)

Stoppable(t) ==
  /\ up /\ IsLive(t) => Holds(t)
  /\ request[t] = "configuration" => turnStatus[t] = "none"

StopInv == \A t \in Tasks : Stoppable(t)

\* The rows that belong to a turn follow its request and its entry in the maps.
RowFollows(t) ==
  /\ IsPending(t) \/ IsCurrent(t) => IsLive(t)
  /\ request[t] = "lease" => IsLive(t)
  /\ request[t] = "baseline" => IsLive(t) \/ turnStatus[t] = "deleted"
  /\ up /\ turnStatus[t] = "queued" => request[t] = "baseline"
  /\ approval[t] = "pending" => IsLive(t) /\ (up => IsCurrent(t))
  /\ IsLive(t) /\ turnStatus[t] # "queued" => threadStatus[ThreadOf[t]] \in Busy

ChatFollows(h) ==
  threadStatus[h] \in Busy => \E t \in Tasks : ThreadOf[t] = h /\ IsLive(t)

\* Until the next start nothing is left of the turns but their rows.
NothingVolatile ==
  ~up => /\ queue = {} /\ active = {}
         /\ request = [t \in Tasks |-> "none"]
         /\ pending = [h \in Threads |-> None]
         /\ runtime = [h \in Threads |-> None]

RowInv ==
  /\ NothingVolatile /\ compacting = {}
  /\ \A t \in Tasks : RowFollows(t)
  /\ \A h \in Threads : ChatFollows(h)

\* The interleavings in which two of the rows disagree are not among those that happen,
\* nor the one in which a turn's row is deleted before the turn has ended.
RowsUndisturbed == Windows \subseteq {"run-rejects", "delete-early"}
TurnsUndisturbed == Windows \subseteq {"run-rejects"}

-----------------------------------------------------------------------------
(* The frame: what a step about one turn leaves of the other rows.          *)

OthersKeepRows(t) ==
  /\ \A u \in Tasks \ {t} : /\ turnStatus'[u] = turnStatus[u] /\ approval'[u] = approval[u]
                            /\ request'[u] = request[u]
                            /\ IsPending(u)' = IsPending(u) /\ IsCurrent(u)' = IsCurrent(u)
  /\ \A h \in Threads \ {ThreadOf[t]} : threadStatus'[h] = threadStatus[h]

\* A chat has at most one live turn.
LEMMA OnlyLiveTurn ==
  ASSUME up, OneTurnPerChat, StopInv, NEW t \in Tasks, Holds(t),
         NEW u \in Tasks, IsLive(u), ThreadOf[u] = ThreadOf[t]
  PROVE  u = t
<1>1. Holds(u)
  BY DEF StopInv, Stoppable
<1>2. ThreadOf[t] \in Threads /\ t # None /\ u # None
  BY ThreadsAssumption
<1> QED
  BY <1>1, <1>2 DEF Holds, OneTurnPerChat, HasThread, IsPending, IsCurrent

\* A step that keeps the rows of the other turns need only be checked for its own.
LEMMA StepKeepsStop ==
  ASSUME StopInv, up, NEW t \in Tasks, OthersKeepRows(t), Stoppable(t)'
  PROVE  StopInv'
<1> SUFFICES ASSUME NEW u \in Tasks, u # t PROVE Stoppable(u)'
  BY DEF StopInv
<1>1. Stoppable(u)
  BY DEF StopInv
<1> QED
  BY <1>1 DEF Stoppable, Holds, IsLive, OthersKeepRows

\* The rows of the turn's chat follow, if the turn is the live one of the chat or
\* its row and the chat's stay.
LEMMA StepKeepsRows ==
  ASSUME up, up', OneTurnPerChat, StopInv, RowInv, NEW t \in Tasks, OthersKeepRows(t),
         RowFollows(t)', UNCHANGED compacting,
         \/ UNCHANGED <<turnStatus, threadStatus>>
         \/ Holds(t) /\ (threadStatus'[ThreadOf[t]] \in Busy => turnStatus'[t] \in NonTerminal)
  PROVE  RowInv'
<1>1. \A u \in Tasks : ThreadOf[u] \in Threads
  BY ThreadsAssumption
<1>2. ASSUME NEW u \in Tasks, u # t PROVE RowFollows(u)'
  <2>1. RowFollows(u)
    BY DEF RowInv
  <2>2. IsLive(u)' /\ turnStatus'[u] # "queued" => threadStatus'[ThreadOf[u]] \in Busy
    <3>1. CASE UNCHANGED <<turnStatus, threadStatus>>
      BY <2>1, <3>1 DEF RowFollows, IsLive
    <3>2. CASE Holds(t) /\ ThreadOf[u] = ThreadOf[t]
      BY <1>2, <3>2, OnlyLiveTurn DEF OthersKeepRows, IsLive
    <3>3. CASE ThreadOf[u] # ThreadOf[t]
      BY <1>1, <1>2, <2>1, <3>3 DEF OthersKeepRows, RowFollows, IsLive
    <3> QED
      BY <3>1, <3>2, <3>3
  <2> QED
    BY <1>2, <2>1, <2>2 DEF OthersKeepRows, RowFollows, IsLive
<1>3. ASSUME NEW h \in Threads PROVE ChatFollows(h)'
  <2>1. ChatFollows(h)
    BY DEF RowInv
  <2>2. CASE UNCHANGED <<turnStatus, threadStatus>>
    BY <2>1, <2>2 DEF ChatFollows, IsLive
  <2>3. CASE h = ThreadOf[t] /\ Holds(t) /\ (threadStatus'[h] \in Busy => IsLive(t)')
    BY <2>3 DEF ChatFollows
  <2>4. CASE h # ThreadOf[t]
    BY <2>1, <2>4 DEF ChatFollows, IsLive, OthersKeepRows
  <2> QED
    BY <2>2, <2>3, <2>4 DEF IsLive
<1> QED
  BY <1>2, <1>3 DEF RowInv, NothingVolatile

\* The step writes no row.
LEMMA RestKeepsStop ==
  ASSUME StopInv, UNCHANGED <<turnStatus, up, request, pending, runtime>>
  PROVE  StopInv'
BY DEF StopInv, Stoppable, Holds, IsLive, IsPending, IsCurrent

\* A step that touches neither rows nor requests keeps what the rows say.
LEMMA RestKeepsRows ==
  ASSUME RowInv, UNCHANGED <<database, up, request, compacting, pending, runtime>>,
         up \/ UNCHANGED <<queue, active>>
  PROVE  RowInv'
<1>1. ASSUME NEW t \in Tasks PROVE RowFollows(t)'
  BY DEF RowInv, RowFollows, IsLive, IsPending, IsCurrent, database
<1>2. ASSUME NEW h \in Threads PROVE ChatFollows(h)'
  BY DEF RowInv, ChatFollows, IsLive, database
<1> QED
  BY <1>1, <1>2 DEF RowInv, NothingVolatile

-----------------------------------------------------------------------------
(* The steps about one turn.                                                *)

\* What the steps start from.
Before == SupervisorInv /\ OneTurnPerChat /\ StopInv

\* What a step keeps: the way to the live turns, and the rows if they are undisturbed.
RowsKeptToo == StopInv' /\ (RowsUndisturbed /\ RowInv => RowInv')

\* A step about a turn whose rows and requests are known after it.
LEMMA TurnStepKeepsRows ==
  ASSUME Before, up, up', NEW t \in Tasks, OthersKeepRows(t), Stoppable(t)',
         RowInv => RowFollows(t)', UNCHANGED compacting,
         \/ UNCHANGED <<turnStatus, threadStatus>>
         \/ Holds(t) /\ (threadStatus'[ThreadOf[t]] \in Busy => turnStatus'[t] \in NonTerminal)
  PROVE  RowsKeptToo
BY StepKeepsStop, StepKeepsRows DEF Before, RowsKeptToo

\* The types the proofs about rows use.
LEMMA RowValues ==
  ASSUME Before, NEW t \in Tasks
  PROVE  /\ ThreadOf[t] \in Threads /\ t # None /\ \A u \in Tasks : ThreadOf[u] \in Threads
         /\ turnStatus \in [Tasks -> Statuses] /\ turnStatus[t] \in Statuses
         /\ threadStatus \in [Threads -> ThreadStatuses]
         /\ approval \in [Tasks -> {"none", "pending", "allowed", "denied"}]
         /\ request \in [Tasks -> {"none", "configuration", "baseline", "lease"}]
         /\ pending \in [Threads -> Tasks \cup {None}]
         /\ runtime \in [Threads -> Tasks \cup {None}]
BY ThreadsAssumption DEF Before, SupervisorInv, Types, RowTypes, MemoryTypes

\* The current runtime is finished.
LEMMA FinishKeepsRows ==
  ASSUME Before, up, NEW t \in Tasks, IsCurrent(t), NEW status \in Terminal,
         Finish(t, status), UNCHANGED <<up, request, compacting, pending>>
  PROVE  RowsKeptToo
<1>1. /\ turnStatus' = [turnStatus EXCEPT ![t] = status]
      /\ threadStatus' = [threadStatus EXCEPT ![ThreadOf[t]] = ThreadAfter(status)]
      /\ approval' = [approval EXCEPT ![t] = IF @ = "pending" THEN "denied" ELSE @]
      /\ runtime' = [runtime EXCEPT ![ThreadOf[t]] = None]
  BY DEF Finish, SetStatus, RejectPendingApprovals
<1>2. status \notin NonTerminal /\ status # "none"
  BY DEF Terminal, NonTerminal
<1>3. ThreadAfter(status) \notin Busy
  BY DEF ThreadAfter, Busy
<1>4. OthersKeepRows(t)
  BY <1>1, RowValues DEF OthersKeepRows, IsPending, IsCurrent
<1>5. ~IsPending(t) /\ request[t] = "none"
  BY RowValues DEF Before, OneTurnPerChat, IsPending, IsCurrent, HasThread
<1>6. turnStatus'[t] = status /\ approval'[t] # "pending" /\ ~IsCurrent(t)' /\ ~IsPending(t)'
      /\ threadStatus'[ThreadOf[t]] \notin Busy /\ request'[t] = "none"
  BY <1>1, <1>3, <1>5, RowValues DEF IsPending, IsCurrent
<1>7. Stoppable(t)' /\ RowFollows(t)'
  BY <1>2, <1>6 DEF Stoppable, RowFollows, IsLive, NonTerminal
<1> QED
  BY <1>4, <1>6, <1>7, TurnStepKeepsRows DEF Holds

\* The pending turn is finished.
LEMMA FinishPendingKeepsRows ==
  ASSUME Before, up, NEW t \in Tasks, IsPending(t), NEW status \in Terminal,
         FinishPending(t, status), pending' = [pending EXCEPT ![ThreadOf[t]] = None],
         UNCHANGED <<up, approval, request, compacting, runtime>>
  PROVE  RowsKeptToo
<1>1. CASE turnStatus[t] \in NonTerminal
  <2>1. /\ turnStatus' = [turnStatus EXCEPT ![t] = status]
        /\ threadStatus' = [threadStatus EXCEPT ![ThreadOf[t]] = ThreadAfter(status)]
    BY <1>1 DEF FinishPending, SetStatus
  <2>2. status \notin NonTerminal
    BY DEF Terminal, NonTerminal
  <2>3. ThreadAfter(status) \notin Busy
    BY DEF ThreadAfter, Busy
  <2>4. OthersKeepRows(t)
    BY <2>1, RowValues DEF OthersKeepRows, IsPending, IsCurrent
  <2>5. ~IsCurrent(t) /\ request[t] = "none"
    BY RowValues DEF Before, OneTurnPerChat, IsPending, IsCurrent, HasThread
  <2>6. turnStatus'[t] = status /\ ~IsCurrent(t)' /\ ~IsPending(t)'
        /\ threadStatus'[ThreadOf[t]] \notin Busy /\ request'[t] = "none"
    BY <2>1, <2>3, <2>5, RowValues DEF IsPending, IsCurrent
  <2>7. RowInv => approval'[t] # "pending"
    BY <2>5 DEF RowInv, RowFollows
  <2>8. Stoppable(t)' /\ (RowInv => RowFollows(t)')
    BY <2>2, <2>6, <2>7 DEF Stoppable, RowFollows, IsLive, NonTerminal
  <2> QED
    BY <2>4, <2>6, <2>8, TurnStepKeepsRows DEF Holds
<1>2. CASE turnStatus[t] \notin NonTerminal
  <2>1. ~RowInv
    BY <1>2 DEF RowInv, RowFollows, IsLive
  <2>2. UNCHANGED turnStatus
    BY <1>2 DEF FinishPending
  <2>3. ASSUME NEW u \in Tasks PROVE Stoppable(u)'
    <3>1. Stoppable(u)
      BY DEF Before, StopInv
    <3>2. u # t => IsPending(u)' = IsPending(u)
      BY RowValues DEF IsPending
    <3> QED
      BY <1>2, <2>2, <3>1, <3>2 DEF Stoppable, Holds, IsLive, IsCurrent
  <2> QED
    BY <2>1, <2>3 DEF RowsKeptToo, StopInv
<1> QED
  BY <1>1, <1>2

\* No row, request or entry of the maps changes.
LEMMA RestKeepsBoth ==
  ASSUME Before, UNCHANGED <<database, up, request, compacting, pending, runtime>>,
         up \/ UNCHANGED <<queue, active>>
  PROVE  RowsKeptToo
BY RestKeepsStop, RestKeepsRows DEF Before, RowsKeptToo, database

\* The turn has no row yet, and the chat nothing in the maps.
LEMMA SubmitKeepsRows ==
  ASSUME Before, NEW t \in Tasks, Submit(t) PROVE RowsKeptToo
<1>1. /\ up /\ turnStatus[t] = "none" /\ ~HasThread(ThreadOf[t])
      /\ request' = [request EXCEPT ![t] = "configuration"]
      /\ UNCHANGED <<turnStatus, threadStatus, approval, up, compacting, pending, runtime>>
  BY DEF Submit, MainIdle, database, supervisor
<1>2. "none" \notin NonTerminal
  BY DEF NonTerminal
<1>3. OthersKeepRows(t)
  BY <1>1, RowValues DEF OthersKeepRows, IsPending, IsCurrent
<1>4. request'[t] = "configuration" /\ ~IsPending(t)' /\ ~IsCurrent(t)'
  BY <1>1, RowValues DEF HasThread, IsPending, IsCurrent
<1>5. RowInv => approval[t] # "pending"
  BY <1>1, <1>2 DEF RowInv, RowFollows, IsLive
<1>6. Stoppable(t)' /\ (RowInv => RowFollows(t)')
  BY <1>1, <1>2, <1>4, <1>5 DEF Stoppable, RowFollows, IsLive
<1> QED
  BY <1>1, <1>3, <1>6, TurnStepKeepsRows

\* The row is created, or the request ends without one.
LEMMA CreateTurnKeepsRows ==
  ASSUME Before, NEW t \in Tasks, CreateTurn(t) PROVE RowsKeptToo
<1>1. /\ up /\ request[t] = "configuration"
      /\ UNCHANGED <<threadStatus, approval, up, compacting, pending, runtime>>
  BY DEF CreateTurn, MainIdle, supervisor
<1>2. turnStatus[t] = "none" /\ ~IsPending(t) /\ ~IsCurrent(t) /\ Holds(t)
  BY <1>1, RowValues
     DEF Before, StopInv, Stoppable, OneTurnPerChat, HasThread, IsPending, IsCurrent, Holds
<1>3. "none" \notin NonTerminal /\ "queued" \in NonTerminal
  BY DEF NonTerminal
<1>4. RowInv => approval[t] # "pending"
  BY <1>2, <1>3 DEF RowInv, RowFollows, IsLive
<1>5. RowInv => threadStatus[ThreadOf[t]] \notin Busy
  <2> SUFFICES ASSUME RowInv, threadStatus[ThreadOf[t]] \in Busy PROVE FALSE
    OBVIOUS
  <2>1. PICK u \in Tasks : ThreadOf[u] = ThreadOf[t] /\ IsLive(u)
    BY RowValues DEF RowInv, ChatFollows
  <2>2. u = t
    BY <1>1, <1>2, <2>1, OnlyLiveTurn DEF Before
  <2> QED
    BY <1>2, <1>3, <2>1, <2>2 DEF IsLive
<1>6. CASE /\ turnStatus' = [turnStatus EXCEPT ![t] = "queued"]
           /\ request' = [request EXCEPT ![t] = "baseline"]
  <2>1. OthersKeepRows(t)
    BY <1>1, <1>6, RowValues DEF OthersKeepRows, IsPending, IsCurrent
  <2>2. /\ turnStatus'[t] = "queued" /\ request'[t] = "baseline"
        /\ ~IsPending(t)' /\ ~IsCurrent(t)'
    BY <1>1, <1>2, <1>6, RowValues DEF IsPending, IsCurrent
  <2>3. Stoppable(t)' /\ (RowInv => RowFollows(t)')
    BY <1>1, <1>3, <1>4, <2>2 DEF Stoppable, RowFollows, Holds, IsLive
  <2> QED
    BY <1>1, <1>2, <1>3, <2>1, <2>2, <2>3, TurnStepKeepsRows
<1>7. CASE request' = [request EXCEPT ![t] = "none"] /\ UNCHANGED turnStatus
  <2>1. OthersKeepRows(t)
    BY <1>1, <1>7, RowValues DEF OthersKeepRows, IsPending, IsCurrent
  <2>2. request'[t] = "none" /\ ~IsPending(t)' /\ ~IsCurrent(t)'
    BY <1>1, <1>2, <1>7, RowValues DEF IsPending, IsCurrent
  <2>3. Stoppable(t)' /\ (RowInv => RowFollows(t)')
    BY <1>1, <1>2, <1>3, <1>4, <1>7, <2>2 DEF Stoppable, RowFollows, Holds, IsLive
  <2> QED
    BY <1>1, <1>7, <2>1, <2>3, TurnStepKeepsRows
<1> QED
  BY <1>6, <1>7 DEF CreateTurn

\* What the request of a turn with a row does: it goes on, or ends with the turn's.
LEMMA RequestKeepsRows ==
  ASSUME Before, up, NEW t \in Tasks, request[t] \in {"baseline", "lease"},
         NEW next \in {"none", "lease"}, request' = [request EXCEPT ![t] = next],
         UNCHANGED <<approval, up, compacting, pending, runtime>>,
         \/ /\ next = "none" /\ turnStatus[t] = "deleted"
            /\ UNCHANGED <<turnStatus, threadStatus>>
         \/ next = "none" /\ SetStatus(t, "failed", "failed")
         \/ next = "lease" /\ SetStatus(t, "preparing", "running")
  PROVE  RowsKeptToo
<1>1. ~IsPending(t) /\ ~IsCurrent(t) /\ Holds(t)
  BY RowValues DEF Before, OneTurnPerChat, HasThread, IsPending, IsCurrent, Holds
<1>2. OthersKeepRows(t)
  BY RowValues DEF OthersKeepRows, IsPending, IsCurrent, SetStatus
<1>3. ~IsPending(t)' /\ ~IsCurrent(t)' /\ request'[t] = next
  BY <1>1, RowValues DEF IsPending, IsCurrent
<1>4. RowInv => approval[t] # "pending"
  BY <1>1 DEF RowInv, RowFollows
<1>5. CASE /\ next = "none" /\ turnStatus[t] = "deleted"
           /\ UNCHANGED <<turnStatus, threadStatus>>
  <2>1. "deleted" \notin NonTerminal /\ "deleted" # "queued"
    BY DEF NonTerminal
  <2>2. Stoppable(t)' /\ (RowInv => RowFollows(t)')
    BY <1>3, <1>4, <1>5, <2>1 DEF Stoppable, RowFollows, Holds, IsLive
  <2> QED
    BY <1>2, <1>5, <2>2, TurnStepKeepsRows
<1>6. CASE next = "none" /\ SetStatus(t, "failed", "failed")
  <2>1. /\ turnStatus'[t] = "failed" /\ threadStatus'[ThreadOf[t]] = "failed"
        /\ "failed" \notin NonTerminal /\ "failed" \notin Busy
    BY <1>6, RowValues DEF SetStatus, NonTerminal, Busy
  <2>2. Stoppable(t)' /\ (RowInv => RowFollows(t)')
    BY <1>3, <1>4, <1>6, <2>1 DEF Stoppable, RowFollows, Holds, IsLive
  <2> QED
    BY <1>1, <1>2, <2>1, <2>2, TurnStepKeepsRows
<1>7. CASE next = "lease" /\ SetStatus(t, "preparing", "running")
  <2>1. /\ turnStatus'[t] = "preparing" /\ threadStatus'[ThreadOf[t]] = "running"
        /\ "preparing" \in NonTerminal /\ "running" \in Busy
    BY <1>7, RowValues DEF SetStatus, NonTerminal, Busy
  <2>2. Stoppable(t)' /\ (RowInv => RowFollows(t)')
    BY <1>3, <1>4, <1>7, <2>1 DEF Stoppable, RowFollows, Holds, IsLive
  <2> QED
    BY <1>1, <1>2, <2>1, <2>2, TurnStepKeepsRows
<1> QED
  BY <1>5, <1>6, <1>7

\* The baseline is captured: the turn is preparing, or has ended.
LEMMA PrepareKeepsRows ==
  ASSUME Before, NEW t \in Tasks, Prepare(t) PROVE RowsKeptToo
BY RequestKeepsRows DEF Prepare, MainIdle, supervisor

\* The turn becomes the pending one, or its request ends with it.
LEMMA EnqueueTurnKeepsRows ==
  ASSUME Before, NEW t \in Tasks, EnqueueTurn(t) PROVE RowsKeptToo
<1>1. /\ up /\ request[t] = "lease" /\ request' = [request EXCEPT ![t] = "none"]
      /\ UNCHANGED <<approval, up, compacting, runtime>>
  BY DEF EnqueueTurn, MainIdle
<1>2. CASE /\ UNCHANGED pending
           /\ IF turnStatus[t] = "deleted" THEN UNCHANGED <<turnStatus, threadStatus>>
              ELSE SetStatus(t, "failed", "failed")
  BY <1>1, <1>2, RequestKeepsRows
<1>3. CASE /\ pending' = [pending EXCEPT ![ThreadOf[t]] = t]
           /\ UNCHANGED <<turnStatus, threadStatus>>
  <2>1. ~HasThread(ThreadOf[t]) /\ ~IsCurrent(t)
    BY <1>1, RowValues DEF Before, OneTurnPerChat, HasThread, IsCurrent
  <2>2. OthersKeepRows(t)
    <3> SUFFICES ASSUME NEW u \in Tasks \ {t} PROVE IsPending(u)' = IsPending(u)
      BY <1>1, <1>3, RowValues DEF OthersKeepRows, IsCurrent
    <3> QED
      BY <1>3, <2>1, RowValues, ThreadsAssumption DEF IsPending, HasThread
  <2>3. IsPending(t)' /\ request'[t] = "none"
    BY <1>1, <1>3, RowValues DEF IsPending
  <2>4. ASSUME RowInv PROVE RowFollows(t)'
    <3>1. RowFollows(t)
      BY <2>4 DEF RowInv
    <3>2. turnStatus[t] # "queued"
      BY <1>1, <3>1 DEF RowFollows
    <3> QED
      BY <1>1, <1>3, <2>1, <2>3, <3>1, <3>2 DEF RowFollows, IsLive, IsCurrent
  <2>5. Stoppable(t)'
    BY <2>3 DEF Stoppable, Holds
  <2> QED
    BY <1>1, <1>3, <2>2, <2>4, <2>5, TurnStepKeepsRows
<1> QED
  BY <1>2, <1>3 DEF EnqueueTurn

\* Before its fork the turn is the pending one of its chat.
LEMMA LaunchRejectedKeepsRows ==
  ASSUME Before, up, NEW t \in Tasks, Prelaunch(t), LaunchRejected(t) PROVE RowsKeptToo
<1>1. IsPending(t)
  BY DEF Before, OneTurnPerChat
<1>2. "failed" \in Terminal
  BY DEF Terminal
<1> QED
  BY <1>1, <1>2, FinishPendingKeepsRows DEF LaunchRejected

\* The beginning of a launch.
LEMMA LaunchBeginsKeepsRows ==
  ASSUME Before, NEW t \in Tasks, LaunchBegins(t) \/ SkillIndexFails(t) PROVE RowsKeptToo
<1>1. up /\ Prelaunch(t)
  BY DEF LaunchBegins, SkillIndexFails, Prelaunch, MainIdle
<1>2. CASE LaunchRejected(t)
  BY <1>1, <1>2, LaunchRejectedKeepsRows
<1>3. CASE UNCHANGED <<database, up, request, compacting, pending, runtime>>
  BY <1>1, <1>3, RestKeepsBoth
<1> QED
  BY <1>2, <1>3 DEF LaunchBegins, SkillIndexFails

\* The pending turn becomes the current one.
LEMMA LaunchForksKeepsRows ==
  ASSUME Before, NEW t \in Tasks, LaunchForks(t) PROVE RowsKeptToo
<1>1. /\ up /\ launch[t] = "skills"
      /\ pending' = [pending EXCEPT ![ThreadOf[t]] = None]
      /\ runtime' = [runtime EXCEPT ![ThreadOf[t]] = t]
      /\ UNCHANGED <<turnStatus, threadStatus, approval, up, request, compacting>>
  BY DEF LaunchForks, MainIdle, database
<1>2. IsPending(t) /\ runtime[ThreadOf[t]] = None
  BY <1>1, RowValues DEF Before, OneTurnPerChat, Prelaunch, IsPending
<1>3. OthersKeepRows(t)
  <2> SUFFICES ASSUME NEW u \in Tasks \ {t}
               PROVE  IsPending(u)' = IsPending(u) /\ IsCurrent(u)' = IsCurrent(u)
    BY <1>1 DEF OthersKeepRows
  <2> QED
    BY <1>1, <1>2, RowValues, ThreadsAssumption DEF IsPending, IsCurrent
<1>4. IsCurrent(t)'
  BY <1>1, RowValues DEF IsCurrent
<1>5. ASSUME RowInv PROVE RowFollows(t)'
  <2>1. RowFollows(t)
    BY <1>5 DEF RowInv
  <2> QED
    BY <1>1, <1>2, <1>4, <2>1 DEF RowFollows, IsLive
<1>6. Stoppable(t)'
  <2>1. Stoppable(t)
    BY DEF Before, StopInv
  <2> QED
    BY <1>1, <1>4, <2>1 DEF Stoppable, Holds
<1> QED
  BY <1>1, <1>3, <1>5, <1>6, TurnStepKeepsRows

\* A turn whose process is forked is live only as the current one.
LEMMA LaunchTimesOutKeepsRows ==
  ASSUME Before, NEW t \in Tasks, LaunchTimesOut(t) PROVE RowsKeptToo
<1>1. up /\ launch[t] = "ready" /\ UNCHANGED <<up, request, compacting, pending>>
  BY DEF LaunchTimesOut, MainIdle
<1>2. "interrupted" \in Terminal
  BY DEF Terminal
<1>3. CASE IsCurrent(t) /\ Finish(t, "interrupted")
  BY <1>1, <1>2, <1>3, FinishKeepsRows
<1>4. CASE /\ ~IsCurrent(t) /\ FinishPending(t, "failed")
           /\ UNCHANGED <<approval, runtime, closing, stopTimer>>
  <2>1. ~IsPending(t) /\ request[t] = "none"
    BY <1>1, RowValues
       DEF Before, SupervisorInv, MapsOK, MayPend, TurnsOK, TurnOK, RequestOK, IsPending
  <2>2. turnStatus[t] \notin NonTerminal
    BY <1>1, <1>4, <2>1 DEF Before, StopInv, Stoppable, Holds, IsLive
  <2>3. UNCHANGED <<turnStatus, threadStatus>>
    BY <1>4, <2>2 DEF FinishPending
  <2> QED
    BY <1>1, <1>4, <2>3, RestKeepsBoth DEF database
<1>5. CASE UNCHANGED <<database, runtime>>
  BY <1>1, <1>5, RestKeepsBoth
<1> QED
  BY <1>3, <1>4, <1>5 DEF LaunchTimesOut

\* Steps of the process write no row.
LEMMA ProcessStepKeepsRows ==
  ASSUME Before, NEW t \in Tasks, ProcessStep(t) \/ LaunchResolves(t) PROVE RowsKeptToo
<1>1. CASE ProcessStep(t)
  <2>1. \E from, to : ChildStep(t, from, to)
    BY <1>1 DEF ProcessStep, ChildReceives, ChildRuns, ChildRunRejects, ChildAsks,
       ChildEnds, ChildDies
  <2> QED
    BY <2>1, RestKeepsBoth DEF ChildStep, supervisor
<1>2. CASE LaunchResolves(t)
  BY <1>2, RestKeepsBoth DEF LaunchResolves, MainIdle
<1> QED
  BY <1>1, <1>2

\* The current runtime stays: its statuses become those of a busy chat, or rest.
LEMMA CurrentStepKeepsRows ==
  ASSUME Before, up, NEW t \in Tasks, IsCurrent(t),
         UNCHANGED <<up, request, compacting, pending, runtime>>,
         \A u \in Tasks \ {t} : approval'[u] = approval[u],
         \/ UNCHANGED <<turnStatus, threadStatus>>
         \/ \E status \in Busy : SetStatus(t, status, status)
  PROVE  RowsKeptToo
<1>1. IsCurrent(t)' /\ request'[t] = "none" /\ request[t] = "none" /\ Holds(t)
  BY RowValues DEF IsCurrent, Before, OneTurnPerChat, HasThread, Holds
<1>2. OthersKeepRows(t)
  BY RowValues DEF OthersKeepRows, IsPending, IsCurrent, SetStatus
<1>3. Stoppable(t)'
  BY <1>1 DEF Stoppable, Holds
<1>4. CASE UNCHANGED <<turnStatus, threadStatus>>
  <2>1. RowInv => RowFollows(t)'
    <3> SUFFICES ASSUME RowInv PROVE RowFollows(t)'
      OBVIOUS
    <3>1. RowFollows(t)
      BY DEF RowInv
    <3> QED
      BY <1>1, <1>4, <3>1 DEF RowFollows, IsLive, IsCurrent
  <2> QED
    BY <1>2, <1>3, <1>4, <2>1, TurnStepKeepsRows
<1>5. CASE \E status \in Busy : SetStatus(t, status, status)
  <2>1. /\ turnStatus'[t] \in NonTerminal /\ turnStatus'[t] # "queued"
        /\ threadStatus'[ThreadOf[t]] \in Busy
    BY <1>5, RowValues DEF SetStatus, NonTerminal, Busy
  <2>2. RowFollows(t)'
    BY <1>1, <2>1 DEF RowFollows, IsLive
  <2> QED
    BY <1>1, <1>2, <1>3, <2>1, <2>2, TurnStepKeepsRows
<1> QED
  BY <1>4, <1>5

\* A message writes the rows of its own turn and chat.
LEMMA HandleMessageKeepsRows ==
  ASSUME Before, NEW t \in Tasks, HandleMessage(t) PROVE RowsKeptToo
<1> DEFINE message == Head(mail[t])
<1>1. up /\ UNCHANGED <<up, request, compacting, pending>>
  BY DEF HandleMessage, MainIdle
<1>2. CASE UNCHANGED <<database, runtime>>
  BY <1>1, <1>2, RestKeepsBoth
<1>3. CASE /\ IsCurrent(t) /\ UNCHANGED <<turnStatus, threadStatus, runtime>>
           /\ approval' = [approval EXCEPT ![t] = "pending"]
  BY <1>1, <1>3, CurrentStepKeepsRows, RowValues
<1>4. CASE /\ IsCurrent(t) /\ UNCHANGED <<approval, runtime>>
           /\ message \in Busy /\ SetStatus(t, message, message)
  BY <1>1, <1>4, CurrentStepKeepsRows
<1>5. CASE \E status \in Terminal : IsCurrent(t) /\ Finish(t, status)
  BY <1>1, <1>5, FinishKeepsRows
<1>6. "interrupted" \in Terminal
  BY DEF Terminal
<1> QED
  BY <1>2, <1>3, <1>4, <1>5, <1>6 DEF HandleMessage, Busy

\* The process has exited, or its 5 seconds are over.
LEMMA HandleExitKeepsRows ==
  ASSUME Before, NEW t \in Tasks, HandleExit(t) \/ StopTimerFires(t) PROVE RowsKeptToo
<1>1. up /\ UNCHANGED <<up, request, compacting, pending>>
  BY DEF HandleExit, StopTimerFires, MainIdle
<1>2. CASE UNCHANGED <<database, runtime>>
  BY <1>1, <1>2, RestKeepsBoth
<1>3. CASE \E status \in Terminal : IsCurrent(t) /\ Finish(t, status)
  BY <1>1, <1>3, FinishKeepsRows
<1>4. "interrupted" \in Terminal /\ "cancelled" \in Terminal
  BY DEF Terminal
<1> QED
  BY <1>2, <1>3, <1>4 DEF HandleExit, StopTimerFires

\* What the user does to the turn that the chat has in the maps.
LEMMA StopKeepsRows ==
  ASSUME Before, NEW h \in Threads, StopPending(h) \/ StopActive(h) \/ ResolveApproval(h)
  PROVE  RowsKeptToo
<1>1. CASE StopPending(h)
  <2>1. PICK t \in Tasks : t = pending[h] /\ h = ThreadOf[t]
    BY <1>1 DEF StopPending, Before, SupervisorInv, Types, MemoryTypes, MapsOK, MayPend
  <2>2. IsPending(t) /\ "cancelled" \in Terminal
    BY <2>1 DEF IsPending, Terminal
  <2> QED
    BY <1>1, <2>1, <2>2, FinishPendingKeepsRows DEF StopPending, MainIdle
<1>2. CASE StopActive(h) \/ ResolveApproval(h)
  <2>1. PICK t \in Tasks : t = runtime[h] /\ h = ThreadOf[t]
    BY <1>2 DEF StopActive, ResolveApproval, Before, SupervisorInv, Types, MemoryTypes,
       MapsOK, MayRun
  <2>2. IsCurrent(t) /\ "running" \in Busy
    BY <2>1 DEF IsCurrent, Busy
  <2>3. up /\ UNCHANGED <<up, request, compacting, pending, runtime>>
    BY <1>2 DEF StopActive, ResolveApproval, MainIdle, supervisor
  <2>4. \A u \in Tasks \ {t} : approval'[u] = approval[u]
    BY <1>2, <2>1, RowValues DEF StopActive, ResolveApproval, RejectPendingApprovals
  <2>5. \/ UNCHANGED <<turnStatus, threadStatus>>
        \/ SetStatus(t, "running", "running")
    BY <1>2, <2>1 DEF StopActive, ResolveApproval
  <2> QED
    BY <2>2, <2>3, <2>4, <2>5, CurrentStepKeepsRows
<1> QED
  BY <1>1, <1>2

-----------------------------------------------------------------------------
(* The steps about a chat, and about all turns at once.                     *)

\* Without the window nothing is compacted; an interrupted chat has no live turn.
LEMMA ChatStepKeepsRows ==
  ASSUME Before, NEW h \in Threads, CompactBegins(h) \/ CompactWrites(h) \/ Continue(h)
  PROVE  RowsKeptToo
<1>1. StopInv'
  BY RestKeepsStop
     DEF CompactBegins, CompactWrites, Continue, Before, database, supervisor
<1>2. ASSUME RowsUndisturbed, RowInv PROVE RowInv'
  <2>1. /\ up /\ threadStatus[h] = "interrupted"
        /\ threadStatus' = [threadStatus EXCEPT ![h] = "idle"]
        /\ UNCHANGED <<turnStatus, approval, up, request, compacting, pending, runtime>>
    BY <1>2 DEF RowsUndisturbed, RowInv, CompactBegins, CompactWrites, Continue, MainIdle,
       supervisor
  <2>2. "interrupted" \notin Busy /\ "idle" \notin Busy
    BY DEF Busy
  <2>3. threadStatus \in [Threads -> ThreadStatuses]
    BY DEF Before, SupervisorInv, Types, RowTypes
  <2>4. ASSUME NEW t \in Tasks PROVE RowFollows(t)'
    <3>1. RowFollows(t) /\ ThreadOf[t] \in Threads
      BY <1>2, ThreadsAssumption DEF RowInv
    <3> QED
      BY <2>1, <2>2, <2>3, <3>1 DEF RowFollows, IsLive, IsPending, IsCurrent
  <2>5. ASSUME NEW g \in Threads PROVE ChatFollows(g)'
    <3>1. ChatFollows(g)
      BY <1>2 DEF RowInv
    <3> QED
      BY <2>1, <2>2, <2>3, <3>1 DEF ChatFollows, IsLive
  <2> QED
    BY <1>2, <2>1, <2>4, <2>5 DEF RowInv, NothingVolatile
<1> QED
  BY <1>1, <1>2 DEF RowsKeptToo

\* The chat has no live turn that is not submitted.
LEMMA DeleteThreadKeepsRows ==
  ASSUME Before, NEW h \in Threads, DeleteThread(h) PROVE RowsKeptToo
<1>1. /\ up /\ ~HasThread(h) /\ threadStatus[h] \in {"idle", "failed", "interrupted"}
      /\ threadStatus' = [threadStatus EXCEPT ![h] = "deleted"]
      /\ turnStatus' = [t \in Tasks |-> IF ThreadOf[t] = h /\ turnStatus[t] # "none"
                                        THEN "deleted" ELSE turnStatus[t]]
      /\ approval' = [t \in Tasks |-> IF ThreadOf[t] = h THEN "none" ELSE approval[t]]
      /\ UNCHANGED <<up, request, compacting, pending, runtime>>
  BY DEF DeleteThread, MainIdle, supervisor
<1>2. "deleted" \notin NonTerminal /\ "deleted" \notin Busy
  BY DEF NonTerminal, Busy
<1>3. StopInv'
  <2> SUFFICES ASSUME NEW t \in Tasks PROVE Stoppable(t)'
    BY DEF StopInv
  <2>1. Stoppable(t)
    BY DEF Before, StopInv
  <2> QED
    BY <1>1, <1>2, <2>1 DEF Stoppable, Holds, IsLive, IsPending, IsCurrent
<1>4. ASSUME RowsUndisturbed, RowInv PROVE RowInv'
  <2>1. ASSUME NEW t \in Tasks, ThreadOf[t] = h
        PROVE  /\ ~IsPending(t) /\ ~IsCurrent(t) /\ request[t] # "lease"
               /\ request[t] = "baseline" => turnStatus'[t] = "deleted"
    <3>1. ~IsPending(t) /\ ~IsCurrent(t)
      BY <1>1, <2>1, RowValues DEF HasThread, IsPending, IsCurrent
    <3>2. RowFollows(t) /\ threadStatus[h] \notin Busy
      BY <1>1, <1>4 DEF RowInv, Busy
    <3>3. request[t] # "lease"
      BY <1>1, <2>1, <3>2 DEF RowFollows
    <3>4. request[t] = "baseline" => turnStatus[t] # "none"
      BY <3>2 DEF RowFollows, IsLive, NonTerminal
    <3> QED
      BY <1>1, <2>1, <3>1, <3>3, <3>4
  <2>2. threadStatus \in [Threads -> ThreadStatuses]
    BY DEF Before, SupervisorInv, Types, RowTypes
  <2>3. ASSUME NEW t \in Tasks PROVE RowFollows(t)'
    <3>1. RowFollows(t) /\ ThreadOf[t] \in Threads
      BY <1>4, ThreadsAssumption DEF RowInv
    <3>2. CASE ThreadOf[t] = h
      <4>1. turnStatus'[t] \in {"none", "deleted"} /\ approval'[t] = "none"
        BY <1>1, <3>2
      <4>2. turnStatus'[t] \notin NonTerminal /\ turnStatus'[t] # "queued"
        BY <4>1 DEF NonTerminal
      <4> QED
        BY <1>1, <2>1, <3>2, <4>1, <4>2 DEF RowFollows, IsLive, IsPending, IsCurrent
    <3>3. CASE ThreadOf[t] # h
      BY <1>1, <2>2, <3>1, <3>3 DEF RowFollows, IsLive, IsPending, IsCurrent
    <3> QED
      BY <3>2, <3>3
  <2>4. ASSUME NEW g \in Threads PROVE ChatFollows(g)'
    <3>1. ChatFollows(g)
      BY <1>4 DEF RowInv
    <3> QED
      BY <1>1, <1>2, <2>2, <3>1 DEF ChatFollows, IsLive
  <2> QED
    BY <1>1, <1>4, <2>3, <2>4 DEF RowInv, NothingVolatile
<1> QED
  BY <1>3, <1>4 DEF RowsKeptToo

\* The end of the application leaves the rows as they are.
LEMMA EndsKeepRows ==
  ASSUME Before, ApplicationEnds \/ \E t \in Tasks : EndsBetweenWrites(t)
  PROVE  RowsKeptToo
<1>1. /\ up /\ up' = FALSE /\ compacting' = {} /\ queue' = {} /\ active' = {}
      /\ request' = [t \in Tasks |-> "none"]
      /\ pending' = [h \in Threads |-> None]
      /\ runtime' = [h \in Threads |-> None]
  BY DEF ApplicationEnds, EndsBetweenWrites, VolatileLost, Scheduler!Reconstruct
<1>2. StopInv'
  BY <1>1 DEF StopInv, Stoppable
<1>3. ASSUME RowsUndisturbed, RowInv PROVE RowInv'
  <2>1. UNCHANGED <<turnStatus, threadStatus, approval>>
    BY <1>3 DEF RowsUndisturbed, ApplicationEnds, EndsBetweenWrites, database
  <2>2. ASSUME NEW t \in Tasks PROVE RowFollows(t)'
    <3>1. RowFollows(t) /\ ThreadOf[t] \in Threads /\ t # None
      BY <1>3, ThreadsAssumption DEF RowInv
    <3> QED
      BY <1>1, <2>1, <3>1 DEF RowFollows, IsLive, IsPending, IsCurrent
  <2>3. ASSUME NEW g \in Threads PROVE ChatFollows(g)'
    BY <1>3, <2>1 DEF RowInv, ChatFollows, IsLive
  <2> QED
    BY <1>1, <2>2, <2>3 DEF RowInv, NothingVolatile
<1> QED
  BY <1>2, <1>3 DEF RowsKeptToo

\* Every live turn is interrupted, and with it its chat.
LEMMA RecoverKeepsRows ==
  ASSUME Before, Recover \/ RecoveryEndsEarly PROVE RowsKeptToo
<1> DEFINE lost == {t \in Tasks : turnStatus[t] \in NonTerminal}
<1>1. /\ ~up /\ UNCHANGED <<queue, active, request, compacting, pending, runtime>>
      /\ turnStatus' = [t \in Tasks |-> IF t \in lost THEN "interrupted" ELSE turnStatus[t]]
  BY RowValues DEF Recover, RecoveryEndsEarly, scheduler, supervisor
<1>2. "interrupted" \notin NonTerminal /\ "interrupted" \notin Busy /\ "none" \notin NonTerminal
  BY DEF NonTerminal, Busy
<1>3. ASSUME NEW t \in Tasks
      PROVE  /\ turnStatus'[t] \notin NonTerminal
             /\ turnStatus[t] \notin NonTerminal => turnStatus'[t] = turnStatus[t]
  BY <1>1, <1>2
<1>4. StopInv'
  <2> SUFFICES ASSUME NEW t \in Tasks PROVE Stoppable(t)'
    BY DEF StopInv
  <2>1. Stoppable(t)
    BY DEF Before, StopInv
  <2> QED
    BY <1>1, <1>2, <1>3, <2>1 DEF Stoppable, IsLive
<1>5. ASSUME RowsUndisturbed, RowInv PROVE RowInv'
  <2>1. /\ up' = TRUE
        /\ approval' = [t \in Tasks |-> IF t \in lost /\ approval[t] = "pending"
                                        THEN "denied" ELSE approval[t]]
        /\ threadStatus' =
             [h \in Threads |-> IF /\ \E t \in lost : ThreadOf[t] = h
                                   /\ threadStatus[h] \in Busy
                                THEN "interrupted" ELSE threadStatus[h]]
    BY <1>5 DEF RowsUndisturbed, Recover, RecoveryEndsEarly, Busy
  <2>2. ASSUME NEW t \in Tasks PROVE RowFollows(t)'
    <3>1. RowFollows(t) /\ ThreadOf[t] \in Threads /\ t # None
      BY <1>5, ThreadsAssumption DEF RowInv
    <3>2. ~IsPending(t)' /\ ~IsCurrent(t)' /\ request'[t] = "none"
      BY <1>1, <1>5, <3>1 DEF RowInv, NothingVolatile, IsPending, IsCurrent
    <3>3. turnStatus'[t] \notin NonTerminal /\ turnStatus'[t] # "queued"
      BY <1>3 DEF NonTerminal
    <3>4. approval'[t] # "pending"
      BY <2>1, <3>1 DEF RowFollows, IsLive
    <3> QED
      BY <3>2, <3>3, <3>4 DEF RowFollows, IsLive
  <2>3. ASSUME NEW g \in Threads PROVE ChatFollows(g)'
    <3>1. threadStatus[g] \in Busy => \E t \in lost : ThreadOf[t] = g
      BY <1>5 DEF RowInv, ChatFollows, IsLive
    <3>2. threadStatus'[g] \notin Busy
      BY <1>2, <2>1, <3>1
    <3> QED
      BY <3>2 DEF ChatFollows
  <2> QED
    BY <1>1, <1>5, <2>1, <2>2, <2>3 DEF RowInv, NothingVolatile
<1> QED
  BY <1>4, <1>5 DEF RowsKeptToo

-----------------------------------------------------------------------------
\* Every step keeps the two invariants.
LEMMA StepKeepsRowsToo ==
  ASSUME Before, [Next]_vars PROVE RowsKeptToo
<1>1. ASSUME NEW t \in Tasks, TurnStep(t) PROVE RowsKeptToo
  <2>1. CASE Submit(t)
    BY <2>1, SubmitKeepsRows
  <2>2. CASE CreateTurn(t)
    BY <2>2, CreateTurnKeepsRows
  <2>3. CASE Prepare(t)
    BY <2>3, PrepareKeepsRows
  <2>4. CASE EnqueueTurn(t)
    BY <2>4, EnqueueTurnKeepsRows
  <2>5. CASE LaunchBegins(t) \/ SkillIndexFails(t)
    BY <2>5, LaunchBeginsKeepsRows
  <2>6. CASE LaunchForks(t)
    BY <2>6, LaunchForksKeepsRows
  <2>7. CASE LaunchResolves(t)
    BY <2>7, ProcessStepKeepsRows
  <2>8. CASE LaunchTimesOut(t)
    BY <2>8, LaunchTimesOutKeepsRows
  <2>9. CASE HandleMessage(t)
    BY <2>9, HandleMessageKeepsRows
  <2>10. CASE HandleExit(t) \/ StopTimerFires(t)
    BY <2>10, HandleExitKeepsRows
  <2> QED
    BY <1>1, <2>1, <2>2, <2>3, <2>4, <2>5, <2>6, <2>7, <2>8, <2>9, <2>10 DEF TurnStep
<1>2. ASSUME NEW t \in Tasks, ProcessStep(t) PROVE RowsKeptToo
  BY <1>2, ProcessStepKeepsRows
<1>3. ASSUME NEW h \in Threads, UserStep(h) PROVE RowsKeptToo
  BY <1>3, StopKeepsRows, ChatStepKeepsRows, DeleteThreadKeepsRows DEF UserStep
<1>4. CASE ApplicationEnds \/ \E t \in Tasks : EndsBetweenWrites(t)
  BY <1>4, EndsKeepRows
<1>5. CASE Recover \/ RecoveryEndsEarly
  BY <1>5, RecoverKeepsRows
<1>6. CASE UNCHANGED vars
  BY <1>6, RestKeepsBoth DEF vars, scheduler, supervisor
<1> QED
  BY <1>1, <1>2, <1>3, <1>4, <1>5, <1>6 DEF Next

\* An empty database.
LEMMA InitRows == Init => StopInv /\ RowInv
<1> SUFFICES ASSUME Init PROVE StopInv /\ RowInv
  OBVIOUS
<1>1. /\ turnStatus = [t \in Tasks |-> "none"] /\ threadStatus = [h \in Threads |-> "idle"]
      /\ approval = [t \in Tasks |-> "none"] /\ up = TRUE /\ compacting = {}
      /\ request = [t \in Tasks |-> "none"]
      /\ pending = [h \in Threads |-> None] /\ runtime = [h \in Threads |-> None]
  BY DEF Init
<1>2. "none" \notin NonTerminal /\ "idle" \notin Busy
  BY DEF NonTerminal, Busy
<1>3. ASSUME NEW t \in Tasks PROVE Stoppable(t) /\ RowFollows(t)
  <2>1. ThreadOf[t] \in Threads /\ t # None
    BY ThreadsAssumption
  <2> QED
    BY <1>1, <1>2, <2>1 DEF Stoppable, RowFollows, IsLive, IsPending, IsCurrent
<1>4. ASSUME NEW h \in Threads PROVE ChatFollows(h)
  BY <1>1, <1>2 DEF ChatFollows
<1> QED
  BY <1>1, <1>3, <1>4 DEF StopInv, RowInv, NothingVolatile

\* A live turn can be stopped, whichever interleavings happen but a Stop while
\* launch() reads the skill index.
THEOREM LiveTurnsAreStoppable ==
  ASSUME "stop-launching" \notin Windows
  PROVE  Spec => []LiveTurnIsStoppable
<1>1. Before /\ [Next]_vars => Before'
  BY StepKeepsInv, StepKeepsBoth, StepKeepsRowsToo DEF Before, RowsKeptToo
<1>2. Init => Before
  BY InitInv, InitBoth, InitRows DEF Before
<1>3. Before => LiveTurnIsStoppable
  BY DEF Before, StopInv, Stoppable, Holds, IsLive, LiveTurnIsStoppable
<1> QED
  BY <1>1, <1>2, <1>3, PTL DEF Spec

\* The invariant of the undisturbed rows.
ChatInv == Before /\ SlotsLead /\ RowInv

\* The induction, with the invariants of TaskSupervisorProofs.
LEMMA ChatInvariance ==
  ASSUME RowsUndisturbed PROVE Spec => []ChatInv
<1>1. "stop-launching" \notin Windows
  BY DEF RowsUndisturbed
<1>2. ChatInv /\ [Next]_vars => ChatInv'
  BY <1>1, StepKeepsInv, StepKeepsBoth, StepKeepsRowsToo DEF ChatInv, Before, RowsKeptToo
<1>3. Init => ChatInv
  BY InitInv, InitBoth, InitRows DEF ChatInv, Before
<1> QED
  BY <1>2, <1>3, PTL DEF Spec

\* The rows of chats, turns and approvals tell the same at all times and after every
\* restart, if the application does not end between the writes of one operation, no
\* submission meets a compaction, and no Stop a launch that reads the skill index.
THEOREM RowsAlwaysAgree ==
  ASSUME RowsUndisturbed
  PROVE  Spec => []RowsAgree
<1>1. ChatInv => RowsAgree
  <2> SUFFICES ASSUME ChatInv PROVE RowsAgree
    OBVIOUS
  <2>1. BusyChatHasLiveTurn
    BY DEF ChatInv, RowInv, ChatFollows, Busy, IsLive, BusyChatHasLiveTurn
  <2>2. LiveTurnMakesChatBusy
    BY DEF ChatInv, RowInv, RowFollows, Busy, IsLive, LiveTurnMakesChatBusy
  <2>3. Terminal \cap NonTerminal = {}
    BY DEF Terminal, NonTerminal
  <2>4. NoStaleApproval
    BY <2>3 DEF ChatInv, RowInv, RowFollows, IsLive, NoStaleApproval
  <2> QED
    BY <2>1, <2>2, <2>4 DEF RowsAgree
<1> QED
  BY <1>1, ChatInvariance, PTL

-----------------------------------------------------------------------------
(* The promise of LeasedTurns.                                              *)

\* The phase of a turn follows its status, its request, and where the scheduler has it.
PhaseFrom(status, requested, queued, holds) ==
  IF status = "none" THEN "new"
  ELSE IF status = "deleted" THEN "gone"
  ELSE IF status \in Terminal THEN "over"
  ELSE IF requested \/ queued THEN "waiting"
  ELSE IF holds THEN "admitted" ELSE "lost"

\* The phase of a turn in LeasedTurns, from what the model keeps of it.
LEMMA PhaseIs ==
  ASSUME SupervisorInv, NEW t \in Tasks
  PROVE  Phase(t) = PhaseFrom(turnStatus[t], request[t] # "none", t \in queue, t \in active)
<1>1. ~(t \in queue /\ t \in active)
  BY DEF SupervisorInv, SchedulerOK, Lawful
<1>2. turnStatus[t] \in {"none", "deleted"} \cup NonTerminal \cup Terminal
  BY DEF SupervisorInv, Types, RowTypes, Statuses
<1> QED
  BY <1>1, <1>2 DEF Phase, PhaseFrom, NonTerminal, Terminal

\* The same after a step.
LEMMA NextPhaseIs ==
  ASSUME SupervisorInv', NEW t \in Tasks
  PROVE  Phase(t)' =
           PhaseFrom(turnStatus'[t], request'[t] # "none", t \in queue', t \in active')
<1>1. ~(t \in queue' /\ t \in active')
  BY DEF SupervisorInv, SchedulerOK, Lawful
<1>2. turnStatus'[t] \in {"none", "deleted"} \cup NonTerminal \cup Terminal
  BY DEF SupervisorInv, Types, RowTypes, Statuses
<1> QED
  BY <1>1, <1>2 DEF Phase, PhaseFrom, NonTerminal, Terminal

\* What Reassign does to the phase of a turn.
PhaseMoves(u) ==
  \/ u \notin active' \ active /\ Phase(u)' = Phase(u)
  \/ u \notin active' \ active /\ Phase(u) \in {"waiting", "admitted"} /\ Phase(u)' = "over"
  \/ u \in active' \ active /\ Phase(u) = "waiting" /\ Phase(u)' = "admitted"

\* The instance of LeasedTurns counts and conflicts as this module does.
LEMMA SamePromise ==
  /\ \A S : Promise!Cardinality(S) = Cardinality(S)
  /\ \A t, u : Promise!LeasesConflict(t, u) = LeasesConflict(t, u)
BY DEF Promise!Cardinality, Cardinality, Promise!LeasesConflict, Promise!SharesResource,
   LeasesConflict, SharesResource

\* A step in which each turn moves to a phase it may move to, and none begins to work,
\* is a step of LeasedTurns.
LEMMA Reassigns ==
  ASSUME SupervisorInv, SupervisorInv',
         \A u \in Tasks : /\ PhaseMoves(u)
                          /\ child'[u] \in Working <=> child[u] \in Working
                          /\ u \in active \ active' => child[u] \notin Working
  PROVE  Promise!Next
<1> DEFINE ended == {u \in Tasks : Phase(u) # Phase(u)' /\ Phase(u)' = "over"}
           freed == active \ active'
           admitted == active' \ active
<1>1. active \in SUBSET Tasks /\ active' \in SUBSET Tasks
  BY DEF SupervisorInv, SchedulerOK, Lawful
<1>2. Promise!Exclusive(active')
  BY SamePromise DEF SupervisorInv, SchedulerOK, Lawful, LeaseFree, Promise!Exclusive
<1>3. Promise!Reassign(ended, freed, admitted)
  <2>1. \A t \in ended : [u \in Tasks |-> Phase(u)][t] \in {"waiting", "admitted"}
    BY DEF PhaseMoves
  <2>2. \A t \in admitted : [u \in Tasks |-> Phase(u)][t] = "waiting" /\ t \notin ended
    BY <1>1 DEF PhaseMoves
  <2>3. freed \cap {t \in Tasks : child[t] \in Working} = {}
    BY <1>1
  <2>4. [t \in Tasks |-> Phase(t)]' =
          [t \in Tasks |-> IF t \in ended THEN "over"
                           ELSE IF t \in admitted THEN "admitted"
                           ELSE [u \in Tasks |-> Phase(u)][t]]
    BY DEF PhaseMoves
  <2>5. active' = (active \ freed) \cup admitted
    OBVIOUS
  <2>6. {t \in Tasks : child[t] \in Working}' = {t \in Tasks : child[t] \in Working}
    OBVIOUS
  <2> QED
    BY <1>2, <2>1, <2>2, <2>3, <2>4, <2>5, <2>6 DEF Promise!Reassign
<1>4. /\ ended \in SUBSET Tasks /\ freed \in SUBSET Tasks /\ admitted \in SUBSET Tasks
  BY <1>1
<1> QED
  BY <1>3, <1>4 DEF Promise!Next

\* The turn stays where the scheduler has it, or is admitted.
Advances(u) ==
  /\ u \in active => u \in active'
  /\ u \in queue' => u \in queue
  /\ u \in queue => u \in queue' \/ u \in active'
  /\ u \in active' \ active => u \in queue

\* A turn the step is not about is at most admitted.
LEMMA OtherMoves ==
  ASSUME ChatInv, SupervisorInv', up, NEW u \in Tasks, Advances(u),
         turnStatus'[u] = turnStatus[u], request'[u] = request[u]
  PROVE  PhaseMoves(u)
<1>1. ~(u \in queue' /\ u \in active') /\ ~(u \in queue /\ u \in active)
  BY DEF ChatInv, Before, SupervisorInv, SchedulerOK, Lawful
<1>2. CASE u \in active' \ active
  <2>1. u \in queue /\ u \notin queue'
    BY <1>1, <1>2 DEF Advances
  <2>2. IsPending(u)
    BY <2>1 DEF ChatInv, Before, OneTurnPerChat, Prelaunch
  <2>3. IsLive(u)
    BY <2>2 DEF ChatInv, RowInv, RowFollows
  <2>4. request[u] = "none"
    BY <2>1 DEF ChatInv, Before, SupervisorInv, TurnsOK, TurnOK, RequestOK
  <2>5. turnStatus[u] \notin {"none", "deleted"} \cup Terminal
    BY <2>3 DEF IsLive, NonTerminal, Terminal
  <2>6. Phase(u) = "waiting"
    BY <2>1, <2>5, PhaseIs DEF ChatInv, Before, PhaseFrom
  <2>7. Phase(u)' = "admitted"
    BY <1>2, <2>1, <2>4, <2>5, NextPhaseIs DEF PhaseFrom
  <2> QED
    BY <1>2, <2>6, <2>7 DEF PhaseMoves
<1>3. CASE u \notin active' \ active
  <2>1. (u \in queue') = (u \in queue) /\ (u \in active') = (u \in active)
    BY <1>1, <1>3 DEF Advances
  <2>2. Phase(u)' = Phase(u)
    BY <2>1, PhaseIs, NextPhaseIs DEF ChatInv, Before
  <2> QED
    BY <1>3, <2>2 DEF PhaseMoves
<1> QED
  BY <1>2, <1>3

\* Where one turn moves and the others are at most admitted, each moves as it may.
LEMMA StepMoves ==
  ASSUME ChatInv, SupervisorInv', up, NEW t \in Tasks, \A u \in Tasks \ {t} : Advances(u),
         \A u \in Tasks \ {t} : turnStatus'[u] = turnStatus[u] /\ request'[u] = request[u],
         PhaseMoves(t),
         \A u \in Tasks : child'[u] \in Working <=> child[u] \in Working,
         t \in active \ active' => child[t] \notin Working
  PROVE  Promise!Next
<1>1. \A u \in Tasks \ {t} : PhaseMoves(u)
  BY OtherMoves
<1> QED
  BY <1>1, Reassigns DEF ChatInv, Before, Advances

\* The phases of the turn a step is about.
LEMMA LiveTurnPhase ==
  ASSUME ChatInv, up, NEW t \in Tasks, IsLive(t)
  PROVE  /\ Phase(t) = IF request[t] # "none" \/ t \in queue THEN "waiting" ELSE "admitted"
         /\ request[t] # "none" => t \notin queue \cup active
<1>1. Holds(t)
  BY DEF ChatInv, Before, StopInv, Stoppable
<1>2. request[t] # "none" => t \notin queue \cup active
  BY DEF ChatInv, Before, SupervisorInv, TurnsOK, TurnOK, RequestOK
<1>3. IsPending(t) \/ IsCurrent(t) => t \in queue \cup active
  BY RowValues
     DEF ChatInv, Before, SupervisorInv, MapsOK, MayPend, MayRun, IsPending, IsCurrent
<1>4. turnStatus[t] \notin {"none", "deleted"} \cup Terminal
  BY DEF IsLive, NonTerminal, Terminal
<1> QED
  BY <1>1, <1>2, <1>3, <1>4, PhaseIs DEF ChatInv, Before, Holds, PhaseFrom

\* A live turn that ends moves as it may.
LEMMA EndMoves ==
  ASSUME ChatInv, SupervisorInv', up, NEW t \in Tasks, IsLive(t), turnStatus'[t] \in Terminal,
         t \notin active' \ active
  PROVE  PhaseMoves(t)
<1>1. turnStatus'[t] \notin {"none", "deleted"}
  BY DEF Terminal
<1>2. Phase(t)' = "over"
  BY <1>1, NextPhaseIs DEF PhaseFrom
<1> QED
  BY <1>2, LiveTurnPhase DEF PhaseMoves

\* A turn that has ended may only lose its slot.
LEMMA NoLongerLiveMoves ==
  ASSUME ChatInv, SupervisorInv', NEW t \in Tasks, ~IsLive(t), turnStatus'[t] = turnStatus[t],
         t \notin active' \ active
  PROVE  PhaseMoves(t)
<1>1. turnStatus[t] \in {"none", "deleted"} \cup Terminal
  BY DEF ChatInv, Before, SupervisorInv, Types, RowTypes, Statuses, IsLive
<1> QED
  BY <1>1, PhaseIs, NextPhaseIs DEF ChatInv, Before, PhaseFrom, PhaseMoves

\* A live turn that stays where it is moves as it may.
LEMMA LiveMoves ==
  ASSUME ChatInv, SupervisorInv', NEW t \in Tasks, IsLive(t), turnStatus'[t] \in NonTerminal,
         (request'[t] # "none") = (request[t] # "none"),
         t \in queue' <=> t \in queue, t \in active' <=> t \in active
  PROVE  PhaseMoves(t)
<1>1. turnStatus[t] \notin {"none", "deleted"} \cup Terminal
  BY DEF IsLive, NonTerminal, Terminal
<1>2. turnStatus'[t] \notin {"none", "deleted"} \cup Terminal
  BY DEF NonTerminal, Terminal
<1> QED
  BY <1>1, <1>2, PhaseIs, NextPhaseIs DEF ChatInv, Before, PhaseFrom, PhaseMoves

\* A step that only ends a turn, or none.
LEMMA QuietStepMoves ==
  ASSUME ChatInv, SupervisorInv', up, NEW t \in Tasks, UNCHANGED <<queue, active>>,
         \A u \in Tasks \ {t} : turnStatus'[u] = turnStatus[u] /\ request'[u] = request[u],
         PhaseMoves(t),
         \A u \in Tasks : child'[u] \in Working <=> child[u] \in Working
  PROVE  Promise!Next
<1>1. \A u \in Tasks \ {t} : Advances(u)
  BY DEF Advances
<1> QED
  BY <1>1, StepMoves

\* No row, request, slot or place in the queue changes.
LEMMA RestMoves ==
  ASSUME ChatInv, SupervisorInv', up, UNCHANGED <<queue, active, turnStatus, request>>,
         \A u \in Tasks : child'[u] \in Working <=> child[u] \in Working
  PROVE  Promise!Next
<1>1. \A u \in Tasks : PhaseMoves(u)
  BY OtherMoves DEF Advances
<1> QED
  BY <1>1, Reassigns DEF ChatInv, Before

\* Accept, or nothing, of a turn that is submitted.
LEMMA SubmissionSimulates ==
  ASSUME ChatInv, SupervisorInv', NEW t \in Tasks, Submit(t) \/ CreateTurn(t) \/ Prepare(t)
  PROVE  Promise!Next
<1>1. up /\ UNCHANGED <<queue, active, child>>
  BY DEF Submit, CreateTurn, Prepare, MainIdle, scheduler, process
<1>2. \A u \in Tasks \ {t} : turnStatus'[u] = turnStatus[u] /\ request'[u] = request[u]
  BY RowValues DEF ChatInv, Before, Submit, CreateTurn, Prepare, SetStatus, database
<1>3. CASE turnStatus[t] = "none" /\ turnStatus'[t] = "none"
  <2>1. ~IsLive(t)
    BY <1>3 DEF IsLive, NonTerminal
  <2> QED
    BY <1>1, <1>2, <1>3, <2>1, NoLongerLiveMoves, QuietStepMoves
<1>4. CASE CreateTurn(t) /\ turnStatus' = [turnStatus EXCEPT ![t] = "queued"]
           /\ request' = [request EXCEPT ![t] = "baseline"]
  <2>1. turnStatus[t] = "none"
    BY <1>4 DEF CreateTurn, ChatInv, Before, StopInv, Stoppable
  <2>2. turnStatus'[t] = "queued" /\ request'[t] = "baseline"
    BY <1>4, RowValues DEF ChatInv, Before
  <2>3. Phase(t) = "new"
    BY <2>1, PhaseIs DEF ChatInv, Before, PhaseFrom
  <2>4. Phase(t)' = "waiting"
    BY <2>2, NextPhaseIs DEF PhaseFrom, Terminal
  <2>5. \A u \in Tasks \ {t} : Phase(u)' = Phase(u)
    BY <1>1, <1>2, PhaseIs, NextPhaseIs DEF ChatInv, Before
  <2>6. [u \in Tasks |-> Phase(u)]' = [[u \in Tasks |-> Phase(u)] EXCEPT ![t] = "waiting"]
    BY <2>4, <2>5
  <2>7. Promise!Accept(t)
    BY <1>1, <2>3, <2>6 DEF Promise!Accept
  <2> QED
    BY <2>7 DEF Promise!Next
<1>5. CASE Prepare(t)
  <2>1. /\ request[t] = "baseline" /\ ~HasThread(ThreadOf[t])
        /\ IsLive(t) \/ turnStatus[t] = "deleted"
    BY <1>5 DEF Prepare, ChatInv, RowInv, RowFollows, Before, OneTurnPerChat
  <2>2. CASE turnStatus[t] = "deleted"
    <3>1. ~IsLive(t) /\ turnStatus'[t] = turnStatus[t]
      BY <1>5, <2>2 DEF Prepare, IsLive, NonTerminal
    <3> QED
      BY <1>1, <1>2, <3>1, NoLongerLiveMoves, QuietStepMoves
  <2>3. CASE turnStatus[t] # "deleted"
    <3>1. request'[t] = "lease" /\ turnStatus'[t] = "preparing"
      BY <1>5, <2>1, <2>3, RowValues DEF Prepare, SetStatus, ChatInv, Before
    <3>2. turnStatus'[t] \in NonTerminal
      BY <3>1 DEF NonTerminal
    <3> QED
      BY <1>1, <1>2, <2>1, <2>3, <3>1, <3>2, LiveMoves, QuietStepMoves
  <2> QED
    BY <2>2, <2>3
<1>6. CASE Submit(t)
  BY <1>3, <1>6 DEF Submit, database
<1>7. CASE CreateTurn(t) /\ UNCHANGED turnStatus
  BY <1>3, <1>7 DEF CreateTurn, ChatInv, Before, StopInv, Stoppable
<1> QED
  BY <1>4, <1>5, <1>6, <1>7 DEF CreateTurn

\* Enqueueing, with the admissions of its drain.
LEMMA EnqueueTurnSimulates ==
  ASSUME ChatInv, SupervisorInv', NEW t \in Tasks, EnqueueTurn(t) PROVE Promise!Next
<1>1. /\ up /\ request[t] = "lease" /\ request' = [request EXCEPT ![t] = "none"]
      /\ UNCHANGED child
  BY DEF EnqueueTurn, MainIdle, process
<1>2. /\ IsLive(t) /\ turnStatus[t] \notin {"none", "deleted"} \cup Terminal
      /\ request'[t] = "none"
      /\ \A u \in Tasks \ {t} : request'[u] = request[u]
  BY <1>1, RowValues
     DEF ChatInv, Before, RowInv, RowFollows, IsLive, NonTerminal, Terminal
<1>3. Phase(t) = "waiting" /\ t \notin queue \cup active
  BY <1>1, <1>2, LiveTurnPhase
<1>4. CASE Scheduler!Enqueue(t) /\ UNCHANGED turnStatus
  <2>1. /\ OthersAtMostAdmitted(t)
        /\ t \in queue' \/ t \in active'
    BY <1>4, EnqueueSummary DEF ChatInv, Before, SupervisorInv
  <2>2. ~(t \in queue' /\ t \in active')
    BY DEF SupervisorInv, SchedulerOK, Lawful
  <2>3. Phase(t)' = IF t \in queue' THEN "waiting" ELSE "admitted"
    BY <1>2, <1>4, <2>1, NextPhaseIs DEF PhaseFrom
  <2>4. PhaseMoves(t)
    BY <1>3, <2>1, <2>2, <2>3 DEF PhaseMoves
  <2>5. \A u \in Tasks \ {t} : Advances(u)
    BY <2>1 DEF OthersAtMostAdmitted, AtMostAdmitted, Advances
  <2> QED
    BY <1>1, <1>2, <1>3, <1>4, <2>4, <2>5, StepMoves
<1>5. CASE UNCHANGED scheduler /\ SetStatus(t, "failed", "failed")
  <2>1. /\ turnStatus'[t] = "failed"
        /\ \A u \in Tasks \ {t} : turnStatus'[u] = turnStatus[u]
    BY <1>5, RowValues DEF SetStatus, ChatInv, Before
  <2>2. PhaseMoves(t)
    BY <1>1, <1>2, <1>5, <2>1, EndMoves DEF scheduler, Terminal
  <2> QED
    BY <1>1, <1>2, <1>5, <2>1, <2>2, QuietStepMoves DEF scheduler
<1> QED
  BY <1>2, <1>4, <1>5 DEF EnqueueTurn

\* A pending turn that is finished, with what the scheduler does about it.
LEMMA PendingEndSimulates ==
  ASSUME ChatInv, SupervisorInv', up, NEW t \in Tasks, IsPending(t), NEW status \in Terminal,
         FinishPending(t, status), OthersAtMostAdmitted(t), t \notin active',
         UNCHANGED <<request, child>>
  PROVE  Promise!Next
<1>1. IsLive(t)
  BY DEF ChatInv, RowInv, RowFollows
<1>2. turnStatus' = [turnStatus EXCEPT ![t] = status]
  BY <1>1 DEF FinishPending, SetStatus, IsLive
<1>3. turnStatus'[t] = status /\ \A u \in Tasks \ {t} : turnStatus'[u] = turnStatus[u]
  BY <1>2, RowValues DEF ChatInv, Before
<1>4. PhaseMoves(t)
  BY <1>1, <1>3, EndMoves
<1>5. child[t] \notin Working
  BY RowValues DEF ChatInv, Before, SupervisorInv, MapsOK, MayPend, TurnsOK, TurnOK,
     LaunchOK, IsPending, Working
<1>6. \A u \in Tasks \ {t} : Advances(u)
  BY DEF OthersAtMostAdmitted, AtMostAdmitted, Advances
<1> QED
  BY <1>3, <1>4, <1>5, <1>6, StepMoves

\* The current turn is finished, with what the scheduler does about it.
LEMMA FinishSimulates ==
  ASSUME ChatInv, SupervisorInv', up, NEW t \in Tasks, IsCurrent(t), NEW status \in Terminal,
         Finish(t, status), OthersAtMostAdmitted(t), t \notin active' \ active,
         t \in active' \/ child[t] \notin Working,
         \A u \in Tasks : child'[u] \in Working <=> child[u] \in Working,
         UNCHANGED request
  PROVE  Promise!Next
<1>1. IsLive(t)
  BY DEF ChatInv, RowInv, RowFollows
<1>2. turnStatus'[t] = status /\ \A u \in Tasks \ {t} : turnStatus'[u] = turnStatus[u]
  BY RowValues DEF Finish, SetStatus, ChatInv, Before
<1>3. PhaseMoves(t)
  BY <1>1, <1>2, EndMoves
<1>4. \A u \in Tasks \ {t} : Advances(u)
  BY DEF OthersAtMostAdmitted, AtMostAdmitted, Advances
<1> QED
  BY <1>2, <1>3, <1>4, StepMoves

\* A launch that rejects.
LEMMA LaunchRejectedSimulates ==
  ASSUME ChatInv, SupervisorInv', up, NEW t \in Tasks, Prelaunch(t), LaunchRejected(t)
  PROVE  Promise!Next
<1>1. IsPending(t)
  BY DEF ChatInv, Before, OneTurnPerChat
<1>2. OthersAtMostAdmitted(t) /\ t \notin active'
  BY FailSummary DEF LaunchRejected, ChatInv, Before, SupervisorInv
<1>3. "failed" \in Terminal /\ FinishPending(t, "failed") /\ UNCHANGED <<request, child>>
  BY DEF Terminal, LaunchRejected, process
<1> QED
  BY <1>1, <1>2, <1>3, PendingEndSimulates

\* A launch that goes on.
LEMMA LaunchSimulates ==
  ASSUME ChatInv, SupervisorInv', NEW t \in Tasks,
         LaunchBegins(t) \/ SkillIndexFails(t) \/ LaunchForks(t) \/ LaunchResolves(t)
  PROVE  Promise!Next
<1>1. CASE LaunchBegins(t) \/ SkillIndexFails(t)
  <2>1. up /\ Prelaunch(t)
    BY <1>1 DEF LaunchBegins, SkillIndexFails, Prelaunch, MainIdle
  <2>2. CASE LaunchRejected(t)
    BY <2>1, <2>2, LaunchRejectedSimulates
  <2>3. CASE UNCHANGED <<database, scheduler, request, child>>
    BY <2>1, <2>3, RestMoves DEF database, scheduler
  <2> QED
    BY <1>1, <2>2, <2>3 DEF LaunchBegins, SkillIndexFails, process
<1>2. CASE LaunchForks(t)
  <2>1. /\ up /\ launch[t] = "skills" /\ child' = [child EXCEPT ![t] = "booting"]
        /\ UNCHANGED <<queue, active, turnStatus, request>>
    BY <1>2 DEF LaunchForks, MainIdle, database, scheduler
  <2>2. child[t] = "none" /\ child \in [Tasks -> {"none", "exited", "gone"} \cup Alive]
    BY <2>1 DEF ChatInv, Before, SupervisorInv, TurnsOK, TurnOK, LaunchOK, Types, MemoryTypes
  <2>3. \A u \in Tasks : child'[u] \in Working <=> child[u] \in Working
    BY <2>1, <2>2 DEF Working
  <2> QED
    BY <2>1, <2>3, RestMoves
<1>3. CASE LaunchResolves(t)
  <2>1. up /\ UNCHANGED <<queue, active, turnStatus, request, child>>
    BY <1>3 DEF LaunchResolves, MainIdle, database, Scheduler!StartSettles
  <2> QED
    BY <2>1, RestMoves
<1> QED
  BY <1>1, <1>2, <1>3

\* A launch that times out.
LEMMA LaunchTimesOutSimulates ==
  ASSUME ChatInv, SupervisorInv', NEW t \in Tasks, LaunchTimesOut(t) PROVE Promise!Next
<1>1. up /\ launch[t] = "ready" /\ UNCHANGED <<request, child>>
  BY DEF LaunchTimesOut, MainIdle, process
<1>2. OthersAtMostAdmitted(t) /\ t \notin active'
  BY FailSummary DEF LaunchTimesOut, ChatInv, Before, SupervisorInv
<1>3. child[t] \notin Working
  BY <1>1 DEF ChatInv, Before, SupervisorInv, TurnsOK, TurnOK, LaunchOK, Working
<1>4. CASE IsCurrent(t) /\ Finish(t, "interrupted")
  <2>1. "interrupted" \in Terminal
    BY DEF Terminal
  <2> QED
    BY <1>1, <1>2, <1>3, <1>4, <2>1, FinishSimulates
<1>5. CASE ~IsCurrent(t) /\ (FinishPending(t, "failed") \/ UNCHANGED turnStatus)
  <2>1. ~IsPending(t) /\ request[t] = "none"
    BY <1>1, RowValues DEF ChatInv, Before, SupervisorInv, MapsOK, MayPend, TurnsOK, TurnOK,
       RequestOK, IsPending
  <2>2. ~IsLive(t)
    BY <1>1, <1>5, <2>1 DEF ChatInv, Before, StopInv, Stoppable, Holds
  <2>3. UNCHANGED turnStatus
    BY <1>5, <2>2 DEF FinishPending, IsLive
  <2>4. PhaseMoves(t)
    BY <1>2, <2>2, <2>3, NoLongerLiveMoves
  <2>5. \A u \in Tasks \ {t} : Advances(u)
    BY <1>2 DEF OthersAtMostAdmitted, AtMostAdmitted, Advances
  <2> QED
    BY <1>1, <1>3, <2>3, <2>4, <2>5, StepMoves
<1>6. t \notin active => ~IsCurrent(t)
  BY RowValues DEF ChatInv, Before, SupervisorInv, MapsOK, MayRun, IsCurrent
<1> QED
  BY <1>4, <1>5, <1>6 DEF LaunchTimesOut, database

\* The current turn of a chat goes on: its statuses stay those of a live turn.
LEMMA CurrentSimulates ==
  ASSUME ChatInv, SupervisorInv', up, NEW t \in Tasks, IsCurrent(t),
         UNCHANGED <<queue, active, request, child>>,
         UNCHANGED turnStatus \/ \E status \in Busy : SetStatus(t, status, status)
  PROVE  Promise!Next
<1>1. CASE UNCHANGED turnStatus
  BY <1>1, RestMoves
<1>2. CASE \E status \in Busy : SetStatus(t, status, status)
  <2>1. IsLive(t)
    BY DEF ChatInv, RowInv, RowFollows
  <2>2. /\ turnStatus'[t] \in NonTerminal
        /\ \A u \in Tasks \ {t} : turnStatus'[u] = turnStatus[u]
    BY <1>2, RowValues DEF SetStatus, Busy, NonTerminal, ChatInv, Before
  <2> QED
    BY <2>1, <2>2, LiveMoves, QuietStepMoves
<1> QED
  BY <1>1, <1>2

\* Messages and the stop timer.
LEMMA EventSimulates ==
  ASSUME ChatInv, SupervisorInv', NEW t \in Tasks, HandleMessage(t) \/ StopTimerFires(t)
  PROVE  Promise!Next
<1> DEFINE message == Head(mail[t])
<1>1. up /\ UNCHANGED scheduler /\ UNCHANGED <<queue, active, request, child>>
  BY DEF HandleMessage, StopTimerFires, MainIdle, scheduler, process
<1>2. CASE UNCHANGED turnStatus
  BY <1>1, <1>2, RestMoves
<1>3. CASE IsCurrent(t) /\ message \in Busy /\ SetStatus(t, message, message)
  BY <1>1, <1>3, CurrentSimulates
<1>4. CASE \E status \in Terminal : IsCurrent(t) /\ Finish(t, status)
  <2>1. OthersAtMostAdmitted(t)
    BY <1>1, RestSummary DEF ChatInv, Before, SupervisorInv, OthersAtMostAdmitted
  <2>2. t \in active
    BY <1>4, RowValues DEF ChatInv, Before, SupervisorInv, MapsOK, MayRun, IsCurrent
  <2> QED
    BY <1>1, <1>4, <2>1, <2>2, FinishSimulates
<1>5. "interrupted" \in Terminal /\ "cancelled" \in Terminal
  BY DEF Terminal
<1> QED
  BY <1>2, <1>3, <1>4, <1>5 DEF HandleMessage, StopTimerFires, Busy, database

\* A process that has exited works no more, so that its slot may be given back.
LEMMA HandleExitSimulates ==
  ASSUME ChatInv, SupervisorInv', NEW t \in Tasks, HandleExit(t) PROVE Promise!Next
<1>1. up /\ child[t] = "exited" /\ child' = [child EXCEPT ![t] = "gone"] /\ UNCHANGED request
  BY DEF HandleExit, MainIdle
<1>2. child \in [Tasks -> {"none", "exited", "gone"} \cup Alive]
  BY DEF ChatInv, Before, SupervisorInv, Types, MemoryTypes
<1>3. child[t] \notin Working /\ \A u \in Tasks : child'[u] \in Working <=> child[u] \in Working
  BY <1>1, <1>2 DEF Working
<1>4. OthersAtMostAdmitted(t) /\ t \notin active' \ active
  <2>1. CASE Scheduler!Release(t)
    BY <2>1, ReleaseSummary DEF ChatInv, Before, SupervisorInv
  <2>2. CASE UNCHANGED scheduler
    BY <2>2, RestSummary
       DEF ChatInv, Before, SupervisorInv, OthersAtMostAdmitted, scheduler
  <2> QED
    BY <2>1, <2>2 DEF HandleExit
<1>5. CASE IsCurrent(t) /\ Finish(t, "interrupted")
  <2>1. "interrupted" \in Terminal
    BY DEF Terminal
  <2> QED
    BY <1>1, <1>3, <1>4, <1>5, <2>1, FinishSimulates
<1>6. CASE ~IsCurrent(t) /\ UNCHANGED turnStatus
  <2>1. launch[t] \in {"ready", "settled"}
    BY <1>1 DEF ChatInv, Before, SupervisorInv, TurnsOK, TurnOK, LaunchOK, Types, MemoryTypes
  <2>2. ~IsPending(t) /\ request[t] = "none"
    BY <2>1, RowValues DEF ChatInv, Before, SupervisorInv, MapsOK, MayPend, TurnsOK, TurnOK,
       RequestOK, IsPending
  <2>3. ~IsLive(t)
    BY <1>1, <1>6, <2>2 DEF ChatInv, Before, StopInv, Stoppable, Holds
  <2>4. PhaseMoves(t)
    BY <1>4, <1>6, <2>3, NoLongerLiveMoves
  <2>5. \A u \in Tasks \ {t} : Advances(u)
    BY <1>4 DEF OthersAtMostAdmitted, AtMostAdmitted, Advances
  <2> QED
    BY <1>1, <1>3, <1>6, <2>4, <2>5, StepMoves
<1>7. t \in closing => ~IsCurrent(t)
  BY RowValues DEF ChatInv, Before, SupervisorInv, MapsOK, MayRun, IsCurrent
<1> QED
  BY <1>5, <1>6, <1>7 DEF HandleExit, database

\* The agent begins under its slot; it ends, or its process does; or it goes on.
LEMMA ProcessStepSimulates ==
  ASSUME ChatInv, SupervisorInv', NEW t \in Tasks, ProcessStep(t)
  PROVE  [Promise!Next]_(Promise!leasedVars)
<1>1. PICK from, to : ChildStep(t, from, to)
  BY DEF ProcessStep, ChildReceives, ChildRuns, ChildRunRejects, ChildAsks, ChildEnds, ChildDies
<1>2. /\ up /\ child' = [child EXCEPT ![t] = to]
      /\ UNCHANGED <<queue, active, turnStatus, request>>
      /\ child \in [Tasks -> {"none", "exited", "gone"} \cup Alive]
  BY <1>1 DEF ChildStep, database, scheduler, ChatInv, Before, SupervisorInv, Types, MemoryTypes
<1>3. [u \in Tasks |-> Phase(u)]' = [u \in Tasks |-> Phase(u)]
  BY <1>2, PhaseIs, NextPhaseIs DEF ChatInv, Before
<1>4. CASE child'[t] \in Working <=> child[t] \in Working
  BY <1>2, <1>4, RestMoves
<1>5. CASE child'[t] \in Working /\ child[t] \notin Working
  <2>1. t \in active
    BY <1>2, <1>5 DEF SupervisorInv, TurnsOK, TurnOK, ProcessOK, Alive, Working
  <2>2. {u \in Tasks : child[u] \in Working}' = {u \in Tasks : child[u] \in Working} \cup {t}
    BY <1>2, <1>5
  <2>3. Promise!Begin(t)
    BY <1>2, <1>3, <2>1, <2>2 DEF Promise!Begin
  <2> QED
    BY <2>3 DEF Promise!Next
<1>6. CASE child'[t] \notin Working /\ child[t] \in Working
  <2>1. {u \in Tasks : child[u] \in Working}' = {u \in Tasks : child[u] \in Working} \ {t}
    BY <1>2, <1>6
  <2>2. Promise!Leave(t)
    BY <1>2, <1>3, <2>1 DEF Promise!Leave
  <2> QED
    BY <2>2 DEF Promise!Next
<1> QED
  BY <1>4, <1>5, <1>6

\* What the user does to a chat.
LEMMA UserStepSimulates ==
  ASSUME TurnsUndisturbed, ChatInv, SupervisorInv', NEW h \in Threads, UserStep(h)
  PROVE  Promise!Next
<1>1. CASE StopPending(h)
  <2>1. PICK t \in Tasks : t = pending[h] /\ h = ThreadOf[t]
    BY <1>1 DEF StopPending, ChatInv, Before, SupervisorInv, Types, MemoryTypes, MapsOK, MayPend
  <2>2. /\ up /\ IsPending(t) /\ "cancelled" \in Terminal /\ FinishPending(t, "cancelled")
        /\ UNCHANGED <<request, child>> /\ Scheduler!Cancel(t)
    BY <1>1, <2>1
       DEF StopPending, MainIdle, IsPending, Terminal, process, TurnsUndisturbed
  <2>3. OthersAtMostAdmitted(t) /\ t \notin active'
    BY <2>2, CancelSummary DEF ChatInv, Before, SupervisorInv
  <2> QED
    BY <2>2, <2>3, PendingEndSimulates
<1>2. CASE StopActive(h) \/ ResolveApproval(h)
  <2>1. PICK t \in Tasks : t = runtime[h] /\ h = ThreadOf[t]
    BY <1>2 DEF StopActive, ResolveApproval, ChatInv, Before, SupervisorInv, Types,
       MemoryTypes, MapsOK, MayRun
  <2>2. /\ up /\ IsCurrent(t) /\ "running" \in Busy
        /\ UNCHANGED <<queue, active, request, child>>
        /\ UNCHANGED turnStatus \/ SetStatus(t, "running", "running")
    BY <1>2, <2>1 DEF StopActive, ResolveApproval, MainIdle, IsCurrent, Busy, scheduler
  <2> QED
    BY <2>2, CurrentSimulates
<1>3. CASE CompactBegins(h) \/ CompactWrites(h) \/ Continue(h)
  <2>1. up /\ UNCHANGED <<queue, active, turnStatus, request, child>>
    BY <1>3 DEF CompactBegins, CompactWrites, Continue, MainIdle, database, scheduler, process
  <2> QED
    BY <2>1, RestMoves
<1>4. CASE DeleteThread(h)
  <2> DEFINE S == {t \in Tasks : ThreadOf[t] = h /\ turnStatus[t] \in Terminal}
  <2>1. /\ up /\ ~HasThread(h) /\ ~Submitting(h) /\ UNCHANGED <<queue, active, request, child>>
        /\ turnStatus' = [t \in Tasks |-> IF ThreadOf[t] = h /\ turnStatus[t] # "none"
                                          THEN "deleted" ELSE turnStatus[t]]
    BY <1>4 DEF DeleteThread, MainIdle, TurnsUndisturbed, scheduler, process
  <2>2. \A t \in Tasks : ThreadOf[t] = h => ~IsLive(t)
    BY <2>1, RowValues DEF Submitting, HasThread, IsPending, IsCurrent, ChatInv, Before,
       StopInv, Stoppable, Holds
  <2>3. \A t \in S : Phase(t) = "over"
    <3>1. "none" \notin Terminal /\ "deleted" \notin Terminal
      BY DEF Terminal
    <3> QED
      BY <3>1, PhaseIs DEF ChatInv, Before, PhaseFrom
  <2>4. ASSUME NEW t \in Tasks PROVE Phase(t)' = IF t \in S THEN "gone" ELSE Phase(t)
    <3>1. turnStatus[t] \in {"none", "deleted"} \cup NonTerminal \cup Terminal
      BY DEF ChatInv, Before, SupervisorInv, Types, RowTypes, Statuses
    <3>2. CASE t \in S
      <4>1. turnStatus'[t] = "deleted"
        BY <2>1, <3>2 DEF Terminal
      <4> QED
        BY <3>2, <4>1, NextPhaseIs DEF PhaseFrom
    <3>3. CASE t \notin S
      <4>1. turnStatus'[t] = turnStatus[t]
        BY <2>1, <2>2, <3>1, <3>3 DEF IsLive
      <4> QED
        BY <2>1, <3>3, <4>1, PhaseIs, NextPhaseIs DEF ChatInv, Before
    <3> QED
      BY <3>2, <3>3
  <2>5. Promise!Delete(S)
    BY <2>1, <2>3, <2>4 DEF Promise!Delete
  <2> QED
    BY <2>5 DEF Promise!Next
<1> QED
  BY <1>1, <1>2, <1>3, <1>4 DEF UserStep

\* The end of the application: every turn loses its lease at once.
LEMMA CrashSimulates ==
  ASSUME TurnsUndisturbed, ChatInv, SupervisorInv',
         ApplicationEnds \/ \E t \in Tasks : EndsBetweenWrites(t)
  PROVE  Promise!Next
<1>1. /\ up /\ UNCHANGED turnStatus /\ queue' = {} /\ active' = {}
      /\ request' = [t \in Tasks |-> "none"] /\ child' = [t \in Tasks |-> "none"]
  BY DEF TurnsUndisturbed, ApplicationEnds, EndsBetweenWrites, VolatileLost, database,
     Scheduler!Reconstruct
<1>2. ASSUME NEW t \in Tasks
      PROVE  Phase(t)' = IF Phase(t) \in {"waiting", "admitted"} THEN "lost" ELSE Phase(t)
  <2>1. turnStatus[t] \in {"none", "deleted"} \cup NonTerminal \cup Terminal
    BY DEF ChatInv, Before, SupervisorInv, Types, RowTypes, Statuses
  <2>2. CASE IsLive(t)
    <3>1. turnStatus[t] \notin {"none", "deleted"} \cup Terminal
      BY <2>2 DEF IsLive, NonTerminal, Terminal
    <3>2. Phase(t)' = "lost"
      BY <1>1, <3>1, NextPhaseIs DEF PhaseFrom
    <3> QED
      BY <1>1, <2>2, <3>2, LiveTurnPhase
  <2>3. CASE ~IsLive(t)
    <3>1. turnStatus[t] \in {"none", "deleted"} \cup Terminal
      BY <2>1, <2>3 DEF IsLive
    <3>2. /\ Phase(t)' = PhaseFrom(turnStatus[t], FALSE, FALSE, FALSE)
          /\ Phase(t) = PhaseFrom(turnStatus[t], FALSE, FALSE, FALSE)
      BY <1>1, <3>1, PhaseIs, NextPhaseIs DEF ChatInv, Before, PhaseFrom
    <3>3. PhaseFrom(turnStatus[t], FALSE, FALSE, FALSE) \in {"new", "gone", "over"}
      BY <3>1 DEF PhaseFrom
    <3> QED
      BY <3>2, <3>3
  <2> QED
    BY <2>2, <2>3
<1>3. {t \in Tasks : child[t] \in Working}' = {}
  BY <1>1 DEF Working
<1>4. Promise!Crash
  BY <1>1, <1>2, <1>3 DEF Promise!Crash
<1> QED
  BY <1>4 DEF Promise!Next

\* Recovery ends every turn that was live.
LEMMA RecoverSimulates ==
  ASSUME TurnsUndisturbed, ChatInv, SupervisorInv', Recover \/ RecoveryEndsEarly
  PROVE  Promise!Next
<1>1. /\ ~up /\ UNCHANGED <<queue, active, request, child>>
      /\ turnStatus' = [t \in Tasks |-> IF IsLive(t) THEN "interrupted" ELSE turnStatus[t]]
  BY DEF TurnsUndisturbed, Recover, RecoveryEndsEarly, IsLive, scheduler, process
<1>2. ASSUME NEW t \in Tasks
      PROVE  Phase(t)' = IF Phase(t) = "lost" THEN "over" ELSE Phase(t)
  <2>1. turnStatus[t] \in {"none", "deleted"} \cup NonTerminal \cup Terminal
    BY DEF ChatInv, Before, SupervisorInv, Types, RowTypes, Statuses
  <2>2. CASE IsLive(t)
    <3>1. turnStatus[t] \notin {"none", "deleted"} \cup Terminal
      BY <2>2 DEF IsLive, NonTerminal, Terminal
    <3>2. request[t] = "none" /\ t \notin queue /\ t \notin active
      BY <1>1 DEF ChatInv, RowInv, NothingVolatile
    <3>3. Phase(t) = "lost"
      BY <3>1, <3>2, PhaseIs DEF ChatInv, Before, PhaseFrom
    <3>4. turnStatus'[t] = "interrupted"
      BY <1>1, <2>2
    <3>5. Phase(t)' = "over"
      BY <3>4, NextPhaseIs DEF PhaseFrom, Terminal
    <3> QED
      BY <3>3, <3>5
  <2>3. CASE ~IsLive(t)
    <3>1. turnStatus[t] \in {"none", "deleted"} \cup Terminal /\ turnStatus'[t] = turnStatus[t]
      BY <1>1, <2>1, <2>3 DEF IsLive
    <3>2. Phase(t)' = Phase(t) /\ Phase(t) # "lost"
      BY <1>1, <3>1, PhaseIs, NextPhaseIs DEF ChatInv, Before, PhaseFrom
    <3> QED
      BY <3>2
  <2> QED
    BY <2>2, <2>3
<1>3. Promise!Recover
  BY <1>1, <1>2 DEF Promise!Recover
<1> QED
  BY <1>3 DEF Promise!Next

\* Every step is a step of LeasedTurns or a stutter.
LEMMA StepSimulates ==
  ASSUME TurnsUndisturbed, ChatInv, SupervisorInv', [Next]_vars
  PROVE  [Promise!Next]_(Promise!leasedVars)
<1>1. ASSUME NEW t \in Tasks, TurnStep(t) PROVE Promise!Next
  <2>1. CASE Submit(t) \/ CreateTurn(t) \/ Prepare(t)
    BY <2>1, SubmissionSimulates
  <2>2. CASE EnqueueTurn(t)
    BY <2>2, EnqueueTurnSimulates
  <2>3. CASE LaunchBegins(t) \/ SkillIndexFails(t) \/ LaunchForks(t) \/ LaunchResolves(t)
    BY <2>3, LaunchSimulates
  <2>4. CASE LaunchTimesOut(t)
    BY <2>4, LaunchTimesOutSimulates
  <2>5. CASE HandleMessage(t) \/ StopTimerFires(t)
    BY <2>5, EventSimulates
  <2>6. CASE HandleExit(t)
    BY <2>6, HandleExitSimulates
  <2> QED
    BY <1>1, <2>1, <2>2, <2>3, <2>4, <2>5, <2>6 DEF TurnStep
<1>2. ASSUME NEW t \in Tasks, ProcessStep(t) PROVE [Promise!Next]_(Promise!leasedVars)
  BY <1>2, ProcessStepSimulates
<1>3. ASSUME NEW h \in Threads, UserStep(h) PROVE Promise!Next
  BY <1>3, UserStepSimulates
<1>4. CASE ApplicationEnds \/ \E t \in Tasks : EndsBetweenWrites(t)
  BY <1>4, CrashSimulates
<1>5. CASE Recover \/ RecoveryEndsEarly
  BY <1>5, RecoverSimulates
<1>6. CASE UNCHANGED vars
  <2>1. UNCHANGED <<turnStatus, request, queue, active, child>>
    BY <1>6 DEF vars, database, scheduler, process
  <2>2. [t \in Tasks |-> Phase(t)]' = [t \in Tasks |-> Phase(t)]
    BY <2>1, PhaseIs, NextPhaseIs DEF ChatInv, Before
  <2> QED
    BY <2>1, <2>2 DEF Promise!leasedVars
<1> QED
  BY <1>1, <1>2, <1>3, <1>4, <1>5, <1>6 DEF Next

\* The initial states are initial states of LeasedTurns.
LEMMA InitSimulates == Init => Promise!Init
<1> SUFFICES ASSUME Init PROVE Promise!Init
  OBVIOUS
<1>1. /\ turnStatus = [t \in Tasks |-> "none"] /\ active = {}
      /\ child = [t \in Tasks |-> "none"]
  BY DEF Init, Scheduler!Init
<1>2. \A t \in Tasks : Phase(t) = "new"
  BY <1>1, InitInv, PhaseIs DEF PhaseFrom
<1>3. {t \in Tasks : child[t] \in Working} = {}
  BY <1>1 DEF Working
<1> QED
  BY <1>1, <1>2, <1>3 DEF Promise!Init

\* Turns, slots and processes together behave as LeasedTurns says, step by step: a turn
\* is admitted once and only to a lease nobody holds, works only while it holds it,
\* keeps it until its process is gone, and is over for good.  A chat deleted while its
\* submission is on its way breaks this: its turn is gone before it is over.
THEOREM PromiseIsKept ==
  ASSUME TurnsUndisturbed
  PROVE  Spec => KeepsPromise
<1>1. ChatInv /\ SupervisorInv' /\ [Next]_vars => [Promise!Next]_(Promise!leasedVars)
  BY StepSimulates
<1>2. ChatInv => SupervisorInv
  BY DEF ChatInv, Before
<1>3. RowsUndisturbed
  BY DEF RowsUndisturbed, TurnsUndisturbed
<1>4. Spec => []ChatInv
  BY <1>3, ChatInvariance
<1> QED
  BY <1>1, <1>2, <1>4, InitSimulates, PTL DEF Spec, KeepsPromise, Promise!Spec
=============================================================================
