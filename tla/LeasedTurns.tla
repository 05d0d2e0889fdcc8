------------------------------ MODULE LeasedTurns ------------------------------
(***************************************************************************)
(* What the task service, the supervisor and the scheduler promise         *)
(* together, without queues, maps, messages or timers: a turn is admitted  *)
(* at most once, works only under its lease, ends once and for good, and   *)
(* is never resumed after the application has ended.                       *)
(***************************************************************************)
EXTENDS RuntimeLeases

VARIABLES
  phase,    \* of each turn
  holders,  \* turns that hold a slot and their lease
  workers   \* turns whose agent may touch its workspace

leasedVars == <<phase, holders, workers>>

Phases == {"new", "waiting", "admitted", "lost", "over", "gone"}

Exclusive(S) ==
  /\ Cardinality(S) <= Capacity
  /\ \A t, u \in S : t # u => ~LeasesConflict(t, u)

Init ==
  /\ phase = [t \in Tasks |-> "new"]
  /\ holders = {} /\ workers = {}

Accept(t) ==
  /\ phase[t] = "new"
  /\ phase' = [phase EXCEPT ![t] = "waiting"]
  /\ UNCHANGED <<holders, workers>>

\* In one go, turns end, slots of turns that do not work are given back, and
\* waiting turns are admitted.
Reassign(ended, freed, admitted) ==
  /\ \A t \in ended : phase[t] \in {"waiting", "admitted"}
  /\ \A t \in admitted : phase[t] = "waiting" /\ t \notin ended
  /\ freed \cap workers = {}
  /\ phase' = [t \in Tasks |-> IF t \in ended THEN "over"
                               ELSE IF t \in admitted THEN "admitted" ELSE phase[t]]
  /\ holders' = (holders \ freed) \cup admitted
  /\ Exclusive(holders')
  /\ UNCHANGED workers

Begin(t) ==
  /\ t \in holders
  /\ workers' = workers \cup {t}
  /\ UNCHANGED <<phase, holders>>

Leave(t) ==
  /\ workers' = workers \ {t}
  /\ UNCHANGED <<phase, holders>>

\* The chats of finished turns are deleted.
Delete(S) ==
  /\ \A t \in S : phase[t] = "over"
  /\ phase' = [t \in Tasks |-> IF t \in S THEN "gone" ELSE phase[t]]
  /\ UNCHANGED <<holders, workers>>

Crash ==
  /\ phase' = [t \in Tasks |-> IF phase[t] \in {"waiting", "admitted"} THEN "lost" ELSE phase[t]]
  /\ holders' = {} /\ workers' = {}

Recover ==
  /\ phase' = [t \in Tasks |-> IF phase[t] = "lost" THEN "over" ELSE phase[t]]
  /\ UNCHANGED <<holders, workers>>

Next ==
  \/ \E t \in Tasks : Accept(t) \/ Begin(t) \/ Leave(t)
  \/ \E ended, freed, admitted \in SUBSET Tasks : Reassign(ended, freed, admitted)
  \/ \E S \in SUBSET Tasks : Delete(S)
  \/ Crash \/ Recover

Spec == Init /\ [][Next]_leasedVars
=============================================================================
