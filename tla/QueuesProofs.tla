----------------------------- MODULE QueuesProofs -----------------------------
(***************************************************************************)
(* Proofs about whoever waits.  Of StructuredOperations, for every set of  *)
(* turns and operations: what is allowed once runs at most once, processes *)
(* run one at a time in the order they were accepted, and no approval is   *)
(* left to answer after its turn.  Of MCQueues, for every set of commands, *)
(* queues of every length and any leases: a command runs in the sandbox    *)
(* made for it, the router begins an inference at most once, and the loop  *)
(* of drain() does what the scheduler's model takes it to do.              *)
(***************************************************************************)
EXTENDS MCQueues, FiniteSetTheorems, SequenceTheorems, TLAPS

-----------------------------------------------------------------------------
(* The operations of the turns.                                               *)

\* The life of an approval: an operation reaches the broker exactly when its
\* allowed approval is consumed, which nothing but a first request does.
ApprovalLife ==
  \A o \in Operations :
    /\ stage[o] # "none" <=> o \in consumed
    /\ o \in consumed => decision[o] = "allow-once"
    /\ stage[o] \in {"none", "waiting"} => runs[o] = 0
    /\ runs[o] <= 1
    /\ o \in heeds => stage[o] = "executing"

\* The shape of the chain: its places are those of the serialized operations
\* that were accepted, without gaps or repetitions, and end at the tail.
ChainShape ==
  /\ \A o \in Operations :
       /\ place[o] > 0 <=> o \in Serialized /\ stage[o] # "none"
       /\ place[o] <= ChainLength
       /\ place[o] > 0 =>
            \/ previous[o] = None /\ place[o] = 1
            \/ /\ previous[o] \in Operations
               /\ place[previous[o]] > 0
               /\ place[o] = place[previous[o]] + 1
  /\ \A o, p \in Operations : place[o] > 0 /\ place[o] = place[p] => o = p
  /\ processTail # None => place[processTail] > 0

IndInv ==
  /\ TypeOK
  /\ ApprovalLife
  /\ ChainShape
  /\ ProcessesInOrder
  /\ NoneToAnswerAfterTurn

\* Every step keeps every variable in its range.
LEMMA TypePreserved ==
  ASSUME TypeOK, [Next]_vars
  PROVE  TypeOK'
<1> USE OperationsAssumption
<1>1. ASSUME NEW t \in Turns, TurnBegins(t) PROVE TypeOK'
  BY <1>1 DEF TurnBegins, TypeOK, row, broker, chain
<1>2. ASSUME NEW t \in Turns, TurnFinishes(t) PROVE TypeOK'
  BY <1>2 DEF TurnFinishes, TypeOK, Controllers, chain, InFlight
<1>3. ASSUME NEW t \in Turns, TurnIsGone(t) PROVE TypeOK'
  BY <1>3 DEF TurnIsGone, TypeOK, row, broker, chain
<1>4. ASSUME NEW o \in Operations, Ask(o) PROVE TypeOK'
  BY <1>4 DEF Ask, TypeOK, broker, chain
<1>5. ASSUME NEW o \in Operations, ExpiryPasses(o) PROVE TypeOK'
  BY <1>5 DEF ExpiryPasses, TypeOK, broker, chain
<1>6. ASSUME NEW o \in Operations, Resolve(o) PROVE TypeOK'
  BY <1>6 DEF Resolve, TypeOK, broker, chain
<1>7. ASSUME NEW o \in Operations, Accept(o) PROVE TypeOK'
  BY <1>7 DEF Accept, TypeOK, Controllers, Chained, chain, ChainLength, InFlight
<1>8. ASSUME NEW o \in Operations, Starts(o) PROVE TypeOK'
  BY <1>8 DEF Starts, TypeOK, row, chain
<1>9. ASSUME NEW o \in Operations, Settles(o) PROVE TypeOK'
  BY <1>9 DEF Settles, TypeOK, row, chain
<1>10. ASSUME NEW o \in Operations, CancelledByRuntime(o) PROVE TypeOK'
  BY <1>10 DEF CancelledByRuntime, TypeOK, InFlight, row, chain
<1>11. CASE UNCHANGED vars
  BY <1>11 DEF vars, TypeOK, row, broker, chain
<1> QED
  BY <1>1, <1>2, <1>3, <1>4, <1>5, <1>6, <1>7, <1>8, <1>9, <1>10, <1>11 DEF Next

\* Every step keeps the life of an approval: a second request finds it consumed.
LEMMA ApprovalLifePreserved ==
  ASSUME TypeOK, ApprovalLife, [Next]_vars
  PROVE  ApprovalLife'
<1> USE OperationsAssumption
<1>1. ASSUME NEW t \in Turns, TurnBegins(t) PROVE ApprovalLife'
  BY <1>1 DEF TurnBegins, TypeOK, ApprovalLife, row, broker, chain
<1>2. ASSUME NEW t \in Turns, TurnFinishes(t) PROVE ApprovalLife'
  BY <1>2 DEF TurnFinishes, TypeOK, ApprovalLife, Controllers, chain, InFlight
<1>3. ASSUME NEW t \in Turns, TurnIsGone(t) PROVE ApprovalLife'
  BY <1>3 DEF TurnIsGone, TypeOK, ApprovalLife, row, broker, chain
<1>4. ASSUME NEW o \in Operations, Ask(o) PROVE ApprovalLife'
  BY <1>4 DEF Ask, TypeOK, ApprovalLife, broker, chain
<1>5. ASSUME NEW o \in Operations, ExpiryPasses(o) PROVE ApprovalLife'
  BY <1>5 DEF ExpiryPasses, TypeOK, ApprovalLife, broker, chain
<1>6. ASSUME NEW o \in Operations, Resolve(o) PROVE ApprovalLife'
  BY <1>6 DEF Resolve, TypeOK, ApprovalLife, broker, chain
<1>7. ASSUME NEW o \in Operations, Accept(o) PROVE ApprovalLife'
  BY <1>7 DEF Accept, TypeOK, ApprovalLife, Controllers, Consumable, Chained, chain,
     InFlight
<1>8. ASSUME NEW o \in Operations, Starts(o) PROVE ApprovalLife'
  BY <1>8 DEF Starts, TypeOK, ApprovalLife, row, chain
<1>9. ASSUME NEW o \in Operations, Settles(o) PROVE ApprovalLife'
  BY <1>9 DEF Settles, TypeOK, ApprovalLife, row, chain
<1>10. ASSUME NEW o \in Operations, CancelledByRuntime(o) PROVE ApprovalLife'
  BY <1>10 DEF CancelledByRuntime, TypeOK, ApprovalLife, InFlight, row, chain
<1>11. CASE UNCHANGED vars
  BY <1>11 DEF vars, TypeOK, ApprovalLife, row, broker, chain
<1> QED
  BY <1>1, <1>2, <1>3, <1>4, <1>5, <1>6, <1>7, <1>8, <1>9, <1>10, <1>11 DEF Next

\* Every step keeps the shape of the chain: an accepted operation is not in it yet,
\* and goes to the end.
LEMMA ChainShapePreserved ==
  ASSUME TypeOK, ApprovalLife, ChainShape, [Next]_vars
  PROVE  ChainShape'
<1> USE OperationsAssumption
<1>1. ASSUME NEW t \in Turns, TurnBegins(t) PROVE ChainShape'
  BY <1>1 DEF TurnBegins, TypeOK, ApprovalLife, ChainShape, ChainLength, row,
     broker, chain
<1>2. ASSUME NEW t \in Turns, TurnFinishes(t) PROVE ChainShape'
  BY <1>2 DEF TurnFinishes, TypeOK, ApprovalLife, ChainShape, ChainLength,
     Controllers, chain, InFlight
<1>3. ASSUME NEW t \in Turns, TurnIsGone(t) PROVE ChainShape'
  BY <1>3 DEF TurnIsGone, TypeOK, ApprovalLife, ChainShape, ChainLength, row,
     broker, chain
<1>4. ASSUME NEW o \in Operations, Ask(o) PROVE ChainShape'
  BY <1>4 DEF Ask, TypeOK, ApprovalLife, ChainShape, ChainLength, broker, chain
<1>5. ASSUME NEW o \in Operations, ExpiryPasses(o) PROVE ChainShape'
  BY <1>5 DEF ExpiryPasses, TypeOK, ApprovalLife, ChainShape, ChainLength, broker,
     chain
<1>6. ASSUME NEW o \in Operations, Resolve(o) PROVE ChainShape'
  BY <1>6 DEF Resolve, TypeOK, ApprovalLife, ChainShape, ChainLength, broker, chain
<1>7. ASSUME NEW o \in Operations, Accept(o) PROVE ChainShape'
  BY <1>7 DEF Accept, TypeOK, ApprovalLife, ChainShape, ChainLength, Controllers,
     Consumable, Chained, chain, InFlight
<1>8. ASSUME NEW o \in Operations, Starts(o) PROVE ChainShape'
  BY <1>8 DEF Starts, TypeOK, ApprovalLife, ChainShape, ChainLength, row, chain
<1>9. ASSUME NEW o \in Operations, Settles(o) PROVE ChainShape'
  BY <1>9 DEF Settles, TypeOK, ApprovalLife, ChainShape, ChainLength, row, chain
<1>10. ASSUME NEW o \in Operations, CancelledByRuntime(o) PROVE ChainShape'
  BY <1>10 DEF CancelledByRuntime, TypeOK, ApprovalLife, ChainShape, ChainLength,
     InFlight, row, chain
<1>11. CASE UNCHANGED vars
  BY <1>11 DEF vars, TypeOK, ApprovalLife, ChainShape, ChainLength, row, broker,
     chain
<1> QED
  BY <1>1, <1>2, <1>3, <1>4, <1>5, <1>6, <1>7, <1>8, <1>9, <1>10, <1>11 DEF Next

\* An operation whose turn it is has only settled ones before it: the one it
\* awaited is its neighbour in the chain, and settled in order itself.
LEMMA BeforeTheTurned ==
  ASSUME TypeOK, ChainShape, ProcessesInOrder,
         NEW o \in Serialized, place[o] > 0, Turned(o),
         NEW p \in Serialized, 0 < place[p], place[p] < place[o]
  PROVE  stage[p] = "settled"
<1>1. o \in Operations /\ p \in Operations /\ place[o] \in Nat /\ place[p] \in Nat
  BY OperationsAssumption DEF TypeOK
<1>2. /\ previous[o] \in Operations
      /\ place[previous[o]] \in Nat /\ place[previous[o]] > 0
      /\ place[o] = place[previous[o]] + 1
  BY <1>1 DEF ChainShape, TypeOK
<1>3. stage[previous[o]] = "settled"
  BY <1>1, <1>2, OperationsAssumption DEF Turned
<1>4. CASE place[p] = place[previous[o]]
  BY <1>1, <1>2, <1>3, <1>4 DEF ChainShape
<1>5. CASE place[p] < place[previous[o]]
  BY <1>1, <1>2, <1>3, <1>5 DEF ChainShape, ProcessesInOrder
<1> QED
  BY <1>1, <1>2, <1>4, <1>5

\* Every step keeps the order: who awaits a settled operation comes next in the chain.
LEMMA OrderPreserved ==
  ASSUME TypeOK, ApprovalLife, ChainShape, ProcessesInOrder, [Next]_vars
  PROVE  ProcessesInOrder'
<1> USE OperationsAssumption
<1>1. ASSUME NEW t \in Turns, TurnBegins(t) PROVE ProcessesInOrder'
  BY <1>1 DEF TurnBegins, TypeOK, ProcessesInOrder, row, broker, chain
<1>2. ASSUME NEW t \in Turns, TurnFinishes(t) PROVE ProcessesInOrder'
  BY <1>2 DEF TurnFinishes, TypeOK, ApprovalLife, ProcessesInOrder, Controllers, chain, InFlight
<1>3. ASSUME NEW t \in Turns, TurnIsGone(t) PROVE ProcessesInOrder'
  BY <1>3 DEF TurnIsGone, TypeOK, ProcessesInOrder, row, broker, chain
<1>4. ASSUME NEW o \in Operations, Ask(o) PROVE ProcessesInOrder'
  BY <1>4 DEF Ask, TypeOK, ProcessesInOrder,
     broker, chain
<1>5. ASSUME NEW o \in Operations, ExpiryPasses(o) PROVE ProcessesInOrder'
  BY <1>5 DEF ExpiryPasses, TypeOK, ProcessesInOrder, broker, chain
<1>6. ASSUME NEW o \in Operations, Resolve(o) PROVE ProcessesInOrder'
  BY <1>6 DEF Resolve, TypeOK, ProcessesInOrder, broker, chain
<1>7. ASSUME NEW o \in Operations, Accept(o) PROVE ProcessesInOrder'
  BY <1>7 DEF Accept, TypeOK, ApprovalLife, ChainShape, ProcessesInOrder, ChainLength, Consumable,
     Chained, chain
<1>8. ASSUME NEW o \in Operations, Starts(o) PROVE ProcessesInOrder'
  BY <1>8, BeforeTheTurned DEF Starts, TypeOK, ChainShape, ProcessesInOrder, row, chain
<1>9. ASSUME NEW o \in Operations, Settles(o) PROVE ProcessesInOrder'
  BY <1>9, BeforeTheTurned DEF Settles, TypeOK, ChainShape, ProcessesInOrder, row, chain
<1>10. ASSUME NEW o \in Operations, CancelledByRuntime(o) PROVE ProcessesInOrder'
  BY <1>10 DEF CancelledByRuntime, TypeOK, ApprovalLife, ProcessesInOrder, InFlight, row, chain
<1>11. CASE UNCHANGED vars
  BY <1>11 DEF vars, TypeOK, ProcessesInOrder, row, broker, chain
<1> QED
  BY <1>1, <1>2, <1>3, <1>4, <1>5, <1>6, <1>7, <1>8, <1>9, <1>10, <1>11 DEF Next

\* Every step leaves no undecided approval to a finished turn.
LEMMA AnswersPreserved ==
  ASSUME TypeOK, NoneToAnswerAfterTurn, [Next]_vars
  PROVE  NoneToAnswerAfterTurn'
<1> USE OperationsAssumption
<1>1. ASSUME NEW t \in Turns, TurnBegins(t) PROVE NoneToAnswerAfterTurn'
  BY <1>1 DEF TurnBegins, TypeOK, NoneToAnswerAfterTurn, Holds, row, broker, chain
<1>2. ASSUME NEW t \in Turns, TurnFinishes(t) PROVE NoneToAnswerAfterTurn'
  BY <1>2 DEF TurnFinishes, TypeOK, NoneToAnswerAfterTurn, chain
<1>3. ASSUME NEW t \in Turns, TurnIsGone(t) PROVE NoneToAnswerAfterTurn'
  BY <1>3 DEF TurnIsGone, TypeOK, NoneToAnswerAfterTurn, row, broker, chain
<1>4. ASSUME NEW o \in Operations, Ask(o) PROVE NoneToAnswerAfterTurn'
  BY <1>4 DEF Ask, TypeOK, NoneToAnswerAfterTurn, broker, chain
<1>5. ASSUME NEW o \in Operations, ExpiryPasses(o) PROVE NoneToAnswerAfterTurn'
  BY <1>5 DEF ExpiryPasses, TypeOK, NoneToAnswerAfterTurn, broker, chain
<1>6. ASSUME NEW o \in Operations, Resolve(o) PROVE NoneToAnswerAfterTurn'
  BY <1>6 DEF Resolve, TypeOK, NoneToAnswerAfterTurn, broker, chain
<1>7. ASSUME NEW o \in Operations, Accept(o) PROVE NoneToAnswerAfterTurn'
  BY <1>7 DEF Accept, TypeOK, NoneToAnswerAfterTurn, chain
<1>8. ASSUME NEW o \in Operations, Starts(o) PROVE NoneToAnswerAfterTurn'
  BY <1>8 DEF Starts, TypeOK, NoneToAnswerAfterTurn, row, chain
<1>9. ASSUME NEW o \in Operations, Settles(o) PROVE NoneToAnswerAfterTurn'
  BY <1>9 DEF Settles, TypeOK, NoneToAnswerAfterTurn, row, chain
<1>10. ASSUME NEW o \in Operations, CancelledByRuntime(o) PROVE NoneToAnswerAfterTurn'
  BY <1>10 DEF CancelledByRuntime, TypeOK, NoneToAnswerAfterTurn, row, chain
<1>11. CASE UNCHANGED vars
  BY <1>11 DEF vars, TypeOK, NoneToAnswerAfterTurn, row, broker, chain
<1> QED
  BY <1>1, <1>2, <1>3, <1>4, <1>5, <1>6, <1>7, <1>8, <1>9, <1>10, <1>11 DEF Next

\* The invariant holds in every reachable state.
LEMMA Invariance == Spec => []IndInv
<1>1. Init => IndInv
  BY OperationsAssumption DEF Init, IndInv, TypeOK, ApprovalLife, ChainShape, ChainLength,
     ProcessesInOrder, NoneToAnswerAfterTurn
<1>2. IndInv /\ [Next]_vars => IndInv'
  BY TypePreserved, ApprovalLifePreserved, ChainShapePreserved, OrderPreserved,
     AnswersPreserved DEF IndInv
<1> QED
  BY <1>1, <1>2, PTL DEF Spec

\* The variables keep their types.
THEOREM TypeCorrect == Spec => []TypeOK
<1>1. IndInv => TypeOK
  BY DEF IndInv
<1> QED
  BY <1>1, Invariance, PTL

\* What the user allowed once is done at most once, and nothing that was not
\* allowed is done, whatever the runtime requests and whenever the turn ends.
THEOREM DoneOnlyAsAllowed == Spec => []AllowedOnce
<1>1. IndInv => AllowedOnce
  BY DEF IndInv, TypeOK, ApprovalLife, AllowedOnce
<1> QED
  BY <1>1, Invariance, PTL

\* Processes run in the order in which their requests were accepted.
THEOREM InOrder == Spec => []ProcessesInOrder
<1>1. IndInv => ProcessesInOrder
  BY DEF IndInv
<1> QED
  BY <1>1, Invariance, PTL

\* Two processes of the broker never run at the same time: of two places in the
\* chain one is the earlier, and it has settled.
THEOREM OneProcessAtATime == Spec => []ProcessesSerialized
<1>1. IndInv => ProcessesSerialized
  <2> SUFFICES ASSUME IndInv, NEW o \in Serialized, NEW p \in Serialized,
                      stage[o] = "executing", stage[p] = "executing"
               PROVE  o = p
    BY DEF ProcessesSerialized
  <2>1. place[o] \in Nat /\ place[p] \in Nat /\ place[o] > 0 /\ place[p] > 0
    BY OperationsAssumption DEF IndInv, TypeOK, ChainShape
  <2>2. ~(place[o] < place[p]) /\ ~(place[p] < place[o])
    BY <2>1 DEF IndInv, ProcessesInOrder
  <2>3. place[o] = place[p]
    BY <2>1, <2>2
  <2> QED
    BY <2>1, <2>3, OperationsAssumption DEF IndInv, ChainShape
<1> QED
  BY <1>1, Invariance, PTL

\* When a turn has ended, no approval of it can be answered any more.
THEOREM EndedTurnsAreAnswered == Spec => []NoneToAnswerAfterTurn
<1>1. IndInv => NoneToAnswerAfterTurn
  BY DEF IndInv
<1> QED
  BY <1>1, Invariance, PTL

-----------------------------------------------------------------------------
(* The commands: what the sandbox is configured for is the command's own.     *)
Busy == {"asked", "reset", "ready", "wrapped", "running"}
Ran == {"running", "done", "timedOut", "cancelled"}
Stages == Busy \cup Ran \cup {"new", "refused"}
SandboxKeys == {KeyOf[c] : c \in Commands} \cup {None}

\* The manager may have lost its configuration, and then is not used; it never has one
\* that CommandSandbox does not know of.
ConfigurationKnown == cmd_configured # None => cmd_configured = cmd_initialized

CommandIsConfined(c) ==
  /\ cmd_stage[c] \in Busy => cmd_current = c
  /\ cmd_stage[c] \in {"ready", "wrapped"} => cmd_initialized = KeyOf[c]
  /\ cmd_stage[c] = "wrapped" => cmd_configured # None
  /\ cmd_stage[c] \in Ran => cmd_within[c] = KeyOf[c]

SandboxInv ==
  /\ cmd_stage \in [Commands -> Stages]
  /\ cmd_current \in Commands \cup {None}
  /\ cmd_configured \in SandboxKeys
  /\ cmd_within \in [Commands -> SandboxKeys]
  /\ ConfigurationKnown
  /\ \A c \in Commands : CommandIsConfined(c)

\* Nothing but the steps of a command, of the sandbox and of a turn's end touches them.
LEMMA SandboxFrame ==
  ASSUME SandboxInv,
         UNCHANGED <<cmd_stage, cmd_current, cmd_initialized, cmd_configured, cmd_within>>
  PROVE  SandboxInv'
BY DEF SandboxInv, ConfigurationKnown, CommandIsConfined

\* A command that goes from one stage to the next while the sandbox rests.
LEMMA CommandGoesOn ==
  ASSUME SandboxInv, NEW c \in Commands, NEW s \in Stages, cmd_current \in {None, c},
         cmd_stage' = [cmd_stage EXCEPT ![c] = s],
         cmd_current' = IF s \in Busy THEN c ELSE None,
         UNCHANGED <<cmd_initialized, cmd_configured, cmd_within>>,
         s \in {"ready", "wrapped"} => cmd_initialized = KeyOf[c],
         s = "wrapped" => cmd_configured # None,
         s \in Ran => cmd_within[c] = KeyOf[c]
  PROVE  SandboxInv'
<1>1. cmd_stage' \in [Commands -> Stages] /\ cmd_current' \in Commands \cup {None}
  BY DEF SandboxInv
<1>2. ASSUME NEW d \in Commands PROVE CommandIsConfined(d)'
  <2>1. CASE d = c
    <3>1. cmd_stage'[d] = s
      BY <2>1 DEF SandboxInv
    <3> QED BY <2>1, <3>1 DEF CommandIsConfined
  <2>2. CASE d # c
    <3>1. cmd_stage'[d] = cmd_stage[d]
      BY <2>2 DEF SandboxInv
    <3>2. cmd_stage[d] \notin Busy
      BY <2>2, CommandsAssumption DEF SandboxInv, CommandIsConfined
    <3> QED BY <3>1, <3>2 DEF SandboxInv, CommandIsConfined, Busy
  <2> QED BY <2>1, <2>2
<1> QED BY <1>1, <1>2 DEF SandboxInv, ConfigurationKnown

LEMMA InitSandbox == Running!Init => SandboxInv
BY DEF Running!Init, SandboxInv, ConfigurationKnown, CommandIsConfined, SandboxKeys, Stages,
       Busy, Ran

LEMMA CommandKeepsSandbox ==
  ASSUME SandboxInv, NEW c \in Commands,
         Running!Ask(c) \/ Running!Step(c) \/ Running!Timeout(c) \/ Running!Abort(c)
  PROVE  SandboxInv'
<1> USE DEF Running!At, Running!Goes, Running!Over, Running!run, Running!sandbox
<1>1. CASE Running!Ask(c)
  <2>1. PICK s \in {"asked", "refused"} :
          /\ cmd_stage' = [cmd_stage EXCEPT ![c] = s]
          /\ cmd_current' = IF s = "asked" THEN c ELSE None
    BY <1>1 DEF Running!Ask
  <2> QED BY <1>1, <2>1, CommandGoesOn DEF Running!Ask, Stages, Busy, Ran
<1>2. CASE Running!ResetManager(c)
  <2>1. /\ cmd_stage' = [cmd_stage EXCEPT ![c] = "reset"] /\ cmd_current = c
        /\ UNCHANGED <<cmd_current, cmd_initialized, cmd_within>>
        /\ cmd_configured' = IF cmd_initialized # None THEN None ELSE cmd_configured
    BY <1>2 DEF Running!ResetManager
  <2>2. cmd_configured' = None
    BY <2>1 DEF SandboxInv, ConfigurationKnown
  <2>3. ASSUME NEW d \in Commands PROVE CommandIsConfined(d)'
    BY <2>1, <2>2 DEF SandboxInv, CommandIsConfined, Busy, Ran
  <2> QED BY <2>1, <2>2, <2>3 DEF SandboxInv, ConfigurationKnown, SandboxKeys, Stages, Busy
<1>3. CASE Running!Initialize(c)
  <2>1. CASE /\ cmd_stage' = [cmd_stage EXCEPT ![c] = "ready"] /\ cmd_current = c
             /\ UNCHANGED <<cmd_current, cmd_within>>
             /\ cmd_configured' = KeyOf[c] /\ cmd_initialized' = KeyOf[c]
    <3>1. ASSUME NEW d \in Commands PROVE CommandIsConfined(d)'
      BY <2>1 DEF SandboxInv, CommandIsConfined, Busy, Ran
    <3> QED BY <2>1, <3>1 DEF SandboxInv, ConfigurationKnown, SandboxKeys, Stages, Busy
  <2>2. CASE /\ cmd_stage' = [cmd_stage EXCEPT ![c] = "refused"] /\ cmd_current' = None
             /\ cmd_current = c
             /\ UNCHANGED <<cmd_initialized, cmd_configured, cmd_within>>
    BY <2>2, CommandGoesOn DEF Stages, Busy, Ran
  <2> QED BY <1>3, <2>1, <2>2 DEF Running!Initialize
<1>4. CASE Running!SameKey(c)
  BY <1>4, CommandGoesOn DEF Running!SameKey, Stages, Busy, Ran
<1>5. CASE Running!Wrap(c)
  <2>1. cmd_initialized = KeyOf[c]
    BY <1>5 DEF Running!Wrap, SandboxInv, CommandIsConfined
  <2>2. CASE /\ cmd_configured # None /\ cmd_current = c /\ cmd_current' = c
             /\ cmd_stage' = [cmd_stage EXCEPT ![c] = "wrapped"]
             /\ UNCHANGED <<cmd_initialized, cmd_configured, cmd_within>>
    BY <2>1, <2>2, CommandGoesOn DEF Stages, Busy, Ran
  <2>3. CASE /\ cmd_current = c /\ cmd_current' = None
             /\ cmd_stage' = [cmd_stage EXCEPT ![c] = "refused"]
             /\ UNCHANGED <<cmd_initialized, cmd_configured, cmd_within>>
    BY <2>3, CommandGoesOn DEF Stages, Busy, Ran
  <2> QED BY <1>5, <2>2, <2>3 DEF Running!Wrap, Running!SandboxingEnabled
<1>6. CASE Running!Spawn(c)
  <2>1. /\ cmd_stage[c] = "wrapped" /\ cmd_current = c
        /\ cmd_stage' = [cmd_stage EXCEPT ![c] = "running"]
        /\ cmd_within' = [cmd_within EXCEPT ![c] = cmd_configured]
        /\ UNCHANGED <<cmd_current, cmd_initialized, cmd_configured>>
    BY <1>6 DEF Running!Spawn
  <2>2. cmd_configured = KeyOf[c]
    BY <2>1 DEF SandboxInv, ConfigurationKnown, CommandIsConfined
  <2>3. ASSUME NEW d \in Commands PROVE CommandIsConfined(d)'
    <3>1. CASE d = c
      BY <2>1, <2>2, <3>1 DEF SandboxInv, CommandIsConfined
    <3>2. CASE d # c
      BY <2>1, <3>2 DEF SandboxInv, CommandIsConfined
    <3> QED BY <3>1, <3>2
  <2> QED BY <2>1, <2>3 DEF SandboxInv, ConfigurationKnown, Stages, Busy
<1>7. CASE Running!SpawnFails(c)
  BY <1>7, CommandGoesOn DEF Running!SpawnFails, Stages, Busy, Ran
<1>8. CASE Running!Finish(c)
  <2>1. PICK s \in {"cancelled", "timedOut", "done"} :
          /\ cmd_stage' = [cmd_stage EXCEPT ![c] = s]
          /\ cmd_current = c /\ cmd_current' = None /\ cmd_stage[c] = "running"
          /\ UNCHANGED <<cmd_initialized, cmd_configured, cmd_within>>
    BY <1>8 DEF Running!Finish
  <2>2. cmd_within[c] = KeyOf[c]
    BY <2>1 DEF SandboxInv, CommandIsConfined, Ran
  <2> QED BY <2>1, <2>2, CommandGoesOn DEF Stages, Busy, Ran
<1>9. CASE Running!Timeout(c)
  BY <1>9, SandboxFrame DEF Running!Timeout
<1>10. CASE Running!Abort(c)
  BY <1>10, SandboxFrame DEF Running!Abort
<1> QED BY <1>1, <1>2, <1>3, <1>4, <1>5, <1>6, <1>7, <1>8, <1>9, <1>10 DEF Running!Step

LEMMA StepSandbox == SandboxInv /\ [Running!Next]_cmd_vars => SandboxInv'
<1> SUFFICES ASSUME SandboxInv, [Running!Next]_cmd_vars PROVE SandboxInv'
  OBVIOUS
<1>1. ASSUME NEW c \in Commands,
             Running!Ask(c) \/ Running!Step(c) \/ Running!Timeout(c) \/ Running!Abort(c)
      PROVE  SandboxInv'
  BY <1>1, CommandKeepsSandbox
<1>2. ASSUME NEW p \in {"leader", "child"}, Running!Exits(p) \/ Running!Dies(p)
      PROVE  SandboxInv'
  BY <1>2, SandboxFrame DEF Running!Exits, Running!Dies, Running!sandbox
<1>3. CASE Running!KillTimer
  BY <1>3, SandboxFrame DEF Running!KillTimer, Running!sandbox
<1>4. CASE Running!Reset
  <2>1. /\ cmd_current = None /\ cmd_configured' = None
        /\ UNCHANGED <<cmd_stage, cmd_current, cmd_within>>
    BY <1>4 DEF Running!Reset
  <2>2. ASSUME NEW c \in Commands PROVE CommandIsConfined(c)'
    BY <2>1, CommandsAssumption DEF SandboxInv, CommandIsConfined, Busy
  <2> QED BY <2>1, <2>2 DEF SandboxInv, ConfigurationKnown, SandboxKeys
<1>5. CASE UNCHANGED cmd_vars
  BY <1>5, SandboxFrame DEF cmd_vars
<1> QED BY <1>1, <1>2, <1>3, <1>4, <1>5 DEF Running!Next

\* For any commands, workspaces and access: a command runs under the rules made for its
\* own, however resets, initializations and failures were interleaved before it.
THEOREM CommandsAreConfined == MCSpec => []RunsInItsSandbox
<1>1. MCInit => SandboxInv
  BY InitSandbox DEF MCInit
<1>2. SandboxInv /\ [MCNext]_MCVars => SandboxInv'
  <2>1. [MCNext]_MCVars => [Running!Next]_cmd_vars
    BY DEF MCNext, MCVars
  <2> QED BY <2>1, StepSandbox
<1>3. SandboxInv => RunsInItsSandbox
  BY DEF SandboxInv, CommandIsConfined, RunsInItsSandbox, Running!RunsInItsSandbox, Ran
<1> QED BY <1>1, <1>2, <1>3, PTL DEF MCSpec

-----------------------------------------------------------------------------
(* The router: after an inference has begun no request is sent any more.     *)
Inferring == router_reply.kind = "ok" /\ router_stage \in {"headers", "body", "ended"}

ReplayInv ==
  /\ router_runs \in {0, 1}
  /\ router_runs = 1 => Inferring

\* What an answer that has begun to come can still lead to is an end.
LEMMA ThrownEnds ==
  ASSUME NEW kind, kind # "input_limit", Router!Thrown(kind)
  PROVE  router_stage' = "ended" /\ UNCHANGED <<router_reply, router_runs>>
BY DEF Router!Thrown, Router!MayRetry, Router!FailNow, Router!Fail, Router!Finish

LEMMA StepReplay == ReplayInv /\ [Router!Next \/ Router!Done]_router_vars => ReplayInv'
<1> SUFFICES ASSUME ReplayInv, [Router!Next \/ Router!Done]_router_vars PROVE ReplayInv'
  OBVIOUS
<1> USE DEF ReplayInv, Inferring
<1>1. CASE Router!Overflow
  BY <1>1 DEF Router!Overflow, Router!FailNow, Router!Fail, Router!Finish
<1>2. CASE Router!Fits
  BY <1>2 DEF Router!Fits
<1>3. CASE Router!Pass
  BY <1>3 DEF Router!Pass
<1>4. CASE Router!Barred
  BY <1>4 DEF Router!Barred, Router!FailNow, Router!Fail, Router!Finish
<1>5. CASE Router!Send
  <2>1. router_runs = 0
    BY <1>5 DEF Router!Send
  <2> QED BY <1>5, <2>1 DEF Router!Send
<1>6. CASE Router!AuthorizeFails
  BY <1>6, ThrownEnds DEF Router!AuthorizeFails
<1>7. CASE Router!Headers
  <2>1. CASE router_reply.kind = "ok"
    BY <1>7, <2>1 DEF Router!Headers
  <2>2. CASE router_reply.kind # "ok"
    BY <1>7, <2>2 DEF Router!Headers, Router!Thrown, Router!FailNow, Router!Fail, Router!Finish
  <2> QED BY <2>1, <2>2
<1>8. CASE Router!HeadersLate
  BY <1>8, ThrownEnds DEF Router!HeadersLate
<1>9. CASE Router!Compacted
  BY <1>9 DEF Router!Compacted
<1>10. CASE Router!CompactionThrows
  BY <1>10 DEF Router!CompactionThrows
<1>11. ASSUME NEW lines, NEW closing, Router!Take(lines, closing)
       PROVE  router_stage' \in {router_stage, "ended"}
  BY <1>11 DEF Router!Take, Router!Fail, Router!Finish
<1>12. CASE Router!Chunk
  BY <1>11, <1>12 DEF Router!Chunk
<1>13. CASE Router!Close
  BY <1>11, <1>13 DEF Router!Close
<1>14. CASE Router!BodyLate
  BY <1>14, ThrownEnds DEF Router!BodyLate
<1>15. CASE Router!Abort
  BY <1>15 DEF Router!Abort, Router!body
<1>16. CASE UNCHANGED router_vars
  BY <1>16 DEF router_vars
<1>17. CASE Router!Done
  BY <1>17 DEF Router!Done, Router!vars
<1> QED BY <1>1, <1>2, <1>3, <1>4, <1>5, <1>6, <1>7, <1>8, <1>9, <1>10, <1>12, <1>13, <1>14, <1>15,
           <1>16, <1>17 DEF Router!Next

\* For any bound on lines and calls: however a request fails, is challenged, or is tried
\* again for its size, the router begins at most one inference for it.
THEOREM InferenceBegunOnce == MCSpec => []Router!NeverReplayed
<1>1. MCInit => ReplayInv
  BY DEF MCInit, Router!Init, ReplayInv
<1>2. ReplayInv /\ [MCNext]_MCVars => ReplayInv'
  <2>1. [MCNext]_MCVars => [Router!Next \/ Router!Done]_router_vars
    BY DEF MCNext, MCVars
  <2> QED BY <2>1, StepReplay
<1>3. ReplayInv => Router!NeverReplayed
  BY DEF ReplayInv, Router!NeverReplayed
<1> QED BY <1>1, <1>2, <1>3, PTL DEF MCSpec

-----------------------------------------------------------------------------
(* The loop of drain() and its description.                                   *)
Ready == Loop!Unblocked(Loop!Elements(loop_q0), loop_a0, Loop!OrderOf(loop_q0))
Admitted == loop_a \ loop_a0

\* The array and the active set, against what they were when drain() was called: who was
\* admitted was ready, and everyone ready before them had been admitted first.
LoopState ==
  /\ loop_q0 \in Loop!Arrays /\ loop_q \in Loop!Arrays
  /\ loop_a0 \in Loop!ActiveSets /\ loop_a \in Loop!ActiveSets
  /\ loop_a0 \cap Loop!Elements(loop_q0) = {}
  /\ loop_a0 \subseteq loop_a
  /\ Admitted \subseteq Ready
  /\ \A t \in Admitted, u \in Ready : <<u, t>> \in Loop!OrderOf(loop_q0) => u \in Admitted
  /\ Loop!Elements(loop_q) = Loop!Elements(loop_q0) \ loop_a
  /\ Loop!OrderOf(loop_q)
       = Loop!OrderOf(loop_q0) \cap (Loop!Elements(loop_q) \X Loop!Elements(loop_q))

\* Where the scan is: nobody before the index is ready, and a whole scan that started
\* nobody has left nobody ready.
LoopScan ==
  /\ loop_started \in BOOLEAN
  /\ loop_index \in 1..(LoopQueued + 1)
  /\ loop_pc \in {"while", "for", "done"}
  /\ loop_pc = "for" =>
       /\ ~loop_started /\ Cardinality(loop_a) < LoopCapacity
       /\ \A j \in 1..(loop_index - 1) : j \in DOMAIN loop_q => loop_q[j] \notin Ready
  /\ loop_pc = "while" /\ ~loop_started => Ready \subseteq Admitted
  /\ loop_pc = "done" => Ready \subseteq Admitted \/ Cardinality(loop_a) >= LoopCapacity

LoopInv == which = "loop" => LoopState /\ LoopScan

\* The loop's Cardinality is the one of the library's theorems: an instance has its own copy of
\* every operator of the modules it extends.
LEMMA LoopCardinality == \A S : Loop!Cardinality(S) = Cardinality(S)
BY DEF Loop!Cardinality, Cardinality

\* An array of distinct tasks, and what its elements and its order are.
LEMMA ArrayIs ==
  ASSUME NEW s \in Loop!Arrays
  PROVE  /\ Len(s) \in 0..LoopQueued /\ s \in [1..Len(s) -> LoopTasks] /\ DOMAIN s = 1..Len(s)
         /\ \A i, j \in 1..Len(s) : i # j => s[i] # s[j]
         /\ \A t : t \in Loop!Elements(s) <=> \E i \in 1..Len(s) : s[i] = t
         /\ \A t, u : <<t, u>> \in Loop!OrderOf(s)
                        <=> \E i, j \in 1..Len(s) : i < j /\ s[i] = t /\ s[j] = u
<1>1. PICK n \in 0..LoopQueued : s \in [1..n -> LoopTasks]
  BY DEF Loop!Arrays
<1>2. n = Len(s) /\ DOMAIN s = 1..n
  BY <1>1, LoopAssumption
<1>3. \A i, j \in 1..n : i # j => s[i] # s[j]
  BY <1>2 DEF Loop!Arrays
<1>4. \A t : t \in Loop!Elements(s) <=> \E i \in 1..n : s[i] = t
  BY <1>2 DEF Loop!Elements
<1>5. ASSUME NEW t, NEW u
      PROVE  <<t, u>> \in Loop!OrderOf(s) <=> \E i, j \in 1..n : i < j /\ s[i] = t /\ s[j] = u
  <2>1. ASSUME <<t, u>> \in Loop!OrderOf(s)
        PROVE  \E i, j \in 1..n : i < j /\ s[i] = t /\ s[j] = u
    <3>1. PICK j \in DOMAIN s : <<t, u>> \in {<<s[i], s[j]>> : i \in 1..(j - 1)}
      BY <2>1 DEF Loop!OrderOf
    <3>2. PICK i \in 1..(j - 1) : <<t, u>> = <<s[i], s[j]>>
      BY <3>1
    <3>3. j \in 1..n /\ i \in 1..n /\ i < j
      BY <1>2, LoopAssumption
    <3> QED BY <3>2, <3>3
  <2>2. ASSUME NEW i \in 1..n, NEW j \in 1..n, i < j, s[i] = t, s[j] = u
        PROVE  <<t, u>> \in Loop!OrderOf(s)
    <3>1. j \in DOMAIN s /\ i \in 1..(j - 1)
      BY <1>2, <2>2, LoopAssumption
    <3>2. <<t, u>> \in {<<s[k], s[j]>> : k \in 1..(j - 1)}
      BY <2>2, <3>1
    <3> QED BY <3>1, <3>2 DEF Loop!OrderOf
  <2> QED BY <2>1, <2>2
<1> QED BY <1>1, <1>2, <1>3, <1>4, <1>5

\* this.queue.splice(i, 1).
Splice(s, i) == SubSeq(s, 1, i - 1) \o SubSeq(s, i + 1, Len(s))

\* Splicing one out of an array leaves the others, in their order.
LEMMA SpliceIs ==
  ASSUME NEW s \in Loop!Arrays, NEW i \in 1..Len(s)
  PROVE  /\ Len(Splice(s, i)) = Len(s) - 1
         /\ Splice(s, i) \in [1..(Len(s) - 1) -> LoopTasks]
         /\ \A k \in 1..(Len(s) - 1) : Splice(s, i)[k] = IF k < i THEN s[k] ELSE s[k + 1]
<1> DEFINE n == Len(s)
           r == Splice(s, i)
<1>1. n \in Nat /\ s \in [1..n -> LoopTasks] /\ i \in 1..n
  BY ArrayIs, LoopAssumption
<1>2. i \in Int /\ 1 <= i /\ i <= n /\ i - 1 \in Int /\ i + 1 \in Int
  BY <1>1
<1> DEFINE left == SubSeq(s, 1, i - 1)
           right == SubSeq(s, i + 1, n)
<1>3. /\ left \in Seq(LoopTasks)
      /\ Len(left) = IF 1 <= i - 1 THEN (i - 1) - 1 + 1 ELSE 0
      /\ \A k \in 1..((i - 1) - 1 + 1) : left[k] = s[1 + k - 1]
  <2>1. \A k \in 1..(i - 1) : s[k] \in LoopTasks
    BY <1>1, <1>2
  <2> QED BY <1>2, <2>1, SubSeqProperties
<1>4. /\ right \in Seq(LoopTasks)
      /\ Len(right) = IF i + 1 <= n THEN n - (i + 1) + 1 ELSE 0
      /\ \A k \in 1..(n - (i + 1) + 1) : right[k] = s[(i + 1) + k - 1]
  <2>1. \A k \in (i + 1)..n : s[k] \in LoopTasks
    BY <1>1, <1>2
  <2> QED BY <1>1, <1>2, <2>1, SubSeqProperties
<1>5. r = left \o right
  BY DEF Splice
<1> HIDE DEF left, right, n, r
<1>6. Len(left) = i - 1 /\ \A k \in 1..(i - 1) : left[k] = s[k]
  BY <1>2, <1>3
<1>7. Len(right) = n - i /\ \A k \in 1..(n - i) : right[k] = s[i + k]
  BY <1>1, <1>2, <1>4
<1>8. /\ r \in Seq(LoopTasks) /\ Len(r) = Len(left) + Len(right)
      /\ \A k \in 1..(Len(left) + Len(right)) :
           r[k] = IF k <= Len(left) THEN left[k] ELSE right[k - Len(left)]
  <2>1. left \in Seq(LoopTasks) /\ right \in Seq(LoopTasks)
    BY <1>3, <1>4
  <2>2. /\ left \o right \in Seq(LoopTasks)
        /\ Len(left \o right) = Len(left) + Len(right)
        /\ \A k \in 1..(Len(left) + Len(right)) :
             (left \o right)[k] = IF k <= Len(left) THEN left[k] ELSE right[k - Len(left)]
    BY <2>1, ConcatProperties
  <2> QED BY <2>2, <1>5
<1>9. Len(left) + Len(right) = n - 1
  BY <1>1, <1>2, <1>6, <1>7
<1>10. Len(r) = n - 1 /\ r \in [1..(n - 1) -> LoopTasks]
  BY <1>8, <1>9, LenProperties
<1>11. ASSUME NEW k \in 1..(n - 1)
       PROVE  r[k] = IF k < i THEN s[k] ELSE s[k + 1]
  <2>1. r[k] = IF k <= i - 1 THEN left[k] ELSE right[k - (i - 1)]
    BY <1>6, <1>8, <1>9
  <2>2. CASE k < i
    <3>1. k \in 1..(i - 1) /\ k <= i - 1
      BY <1>1, <1>2, <2>2
    <3> QED BY <1>6, <2>1, <2>2, <3>1
  <2>3. CASE ~(k < i)
    <3>1. k - (i - 1) \in 1..(n - i) /\ ~(k <= i - 1) /\ i + (k - (i - 1)) = k + 1
      BY <1>1, <1>2, <2>3
    <3>2. right[k - (i - 1)] = s[k + 1]
      BY <1>7, <3>1
    <3> QED BY <2>1, <2>3, <3>1, <3>2
  <2> QED BY <2>2, <2>3
<1> QED BY <1>10, <1>11 DEF n, r

LEMMA SplicedArray ==
  ASSUME NEW s \in Loop!Arrays, NEW i \in 1..Len(s)
  PROVE  /\ Splice(s, i) \in Loop!Arrays
         /\ Loop!Elements(Splice(s, i)) = Loop!Elements(s) \ {s[i]}
         /\ Loop!OrderOf(Splice(s, i))
              = Loop!OrderOf(s) \cap (Loop!Elements(Splice(s, i)) \X Loop!Elements(Splice(s, i)))
<1> DEFINE n == Len(s)
           r == Splice(s, i)
<1>1. /\ n \in 0..LoopQueued /\ i \in 1..n
      /\ \A k, l \in 1..n : k # l => s[k] # s[l]
      /\ \A t : t \in Loop!Elements(s) <=> \E k \in 1..n : s[k] = t
      /\ \A t, u : <<t, u>> \in Loop!OrderOf(s)
                     <=> \E k, l \in 1..n : k < l /\ s[k] = t /\ s[l] = u
  BY ArrayIs
<1>2. /\ Len(r) = n - 1 /\ r \in [1..(n - 1) -> LoopTasks]
      /\ \A k \in 1..(n - 1) : r[k] = IF k < i THEN s[k] ELSE s[k + 1]
  BY SpliceIs
<1> HIDE DEF n, r
<1>3. n - 1 \in 0..LoopQueued /\ n \in Nat /\ i \in Nat /\ DOMAIN r = 1..(n - 1)
  BY <1>1, <1>2, LoopAssumption
<1> DEFINE at(m) == IF m < i THEN m ELSE m + 1
<1>4. \A k \in 1..(n - 1) : at(k) \in 1..n /\ at(k) # i /\ r[k] = s[at(k)]
  BY <1>1, <1>2, <1>3
<1>5. \A k, l \in 1..(n - 1) : k < l => at(k) < at(l)
  BY <1>3
<1>6. \A k \in 1..n : k # i => \E l \in 1..(n - 1) : at(l) = k
  <2>1. ASSUME NEW k \in 1..n, k # i PROVE \E l \in 1..(n - 1) : at(l) = k
    <3>1. CASE k < i
      <4>1. k \in 1..(n - 1) /\ at(k) = k
        BY <1>1, <1>3, <3>1
      <4> QED BY <4>1
    <3>2. CASE k > i
      <4>1. k - 1 \in 1..(n - 1) /\ at(k - 1) = k
        BY <1>1, <1>3, <3>2
      <4> QED BY <4>1
    <3> QED BY <1>3, <2>1, <3>1, <3>2
  <2> QED BY <2>1
<1> HIDE DEF at
<1>7. ASSUME NEW k \in 1..(n - 1), NEW l \in 1..(n - 1), k # l PROVE r[k] # r[l]
  <2>1. at(k) # at(l)
    BY <1>3, <1>4, <1>5, <1>7
  <2> QED BY <1>1, <1>4, <2>1
<1>8. r \in Loop!Arrays
  BY <1>2, <1>3, <1>7 DEF Loop!Arrays
<1>9. /\ \A t : t \in Loop!Elements(r) <=> \E k \in 1..(n - 1) : r[k] = t
      /\ \A t, u : <<t, u>> \in Loop!OrderOf(r)
                     <=> \E k, l \in 1..(n - 1) : k < l /\ r[k] = t /\ r[l] = u
  <2>1. Len(r) = n - 1
    BY <1>2
  <2>2. \A t : t \in Loop!Elements(r) <=> \E k \in 1..Len(r) : r[k] = t
    BY <1>8, ArrayIs
  <2>3. \A t, u : <<t, u>> \in Loop!OrderOf(r)
                     <=> \E k, l \in 1..Len(r) : k < l /\ r[k] = t /\ r[l] = u
    BY <1>8, ArrayIs
  <2> QED BY <2>1, <2>2, <2>3
<1>10. ASSUME NEW t PROVE t \in Loop!Elements(r) <=> t \in Loop!Elements(s) /\ t # s[i]
  <2>1. ASSUME NEW k \in 1..(n - 1), r[k] = t PROVE t \in Loop!Elements(s) /\ t # s[i]
    BY <1>1, <1>4, <2>1
  <2>2. ASSUME NEW k \in 1..n, s[k] = t, t # s[i] PROVE \E l \in 1..(n - 1) : r[l] = t
    BY <1>4, <1>6, <2>2
  <2> QED BY <1>1, <1>9, <2>1, <2>2
<1>11. ASSUME NEW t, NEW u
       PROVE  <<t, u>> \in Loop!OrderOf(r)
                <=> <<t, u>> \in Loop!OrderOf(s) /\ t \in Loop!Elements(r) /\ u \in Loop!Elements(r)
  <2>1. ASSUME NEW k \in 1..(n - 1), NEW l \in 1..(n - 1), k < l, r[k] = t, r[l] = u
        PROVE  <<t, u>> \in Loop!OrderOf(s) /\ t \in Loop!Elements(r) /\ u \in Loop!Elements(r)
    <3>1. at(k) \in 1..n /\ at(l) \in 1..n /\ at(k) < at(l) /\ t = s[at(k)] /\ u = s[at(l)]
      BY <1>4, <1>5, <2>1
    <3>2. <<t, u>> \in Loop!OrderOf(s)
      BY <1>1, <3>1
    <3> QED BY <1>9, <2>1, <3>2
  <2>2. ASSUME <<t, u>> \in Loop!OrderOf(s), t \in Loop!Elements(r), u \in Loop!Elements(r)
        PROVE  <<t, u>> \in Loop!OrderOf(r)
    <3>1. PICK k \in 1..(n - 1) : r[k] = t
      BY <1>9, <2>2
    <3>2. PICK l \in 1..(n - 1) : r[l] = u
      BY <1>9, <2>2
    <3>3. at(k) \in 1..n /\ at(l) \in 1..n /\ t = s[at(k)] /\ u = s[at(l)]
      BY <1>4, <3>1, <3>2
    <3>4. PICK v, w \in 1..n : v < w /\ s[v] = t /\ s[w] = u
      BY <1>1, <2>2
    <3>5. at(k) = v /\ at(l) = w
      BY <1>1, <3>3, <3>4
    <3>6. k < l
      BY <1>3, <1>5, <3>4, <3>5
    <3> QED BY <1>9, <3>1, <3>2, <3>6
  <2> QED BY <1>9, <2>1, <2>2
<1>12. Loop!OrderOf(r) \subseteq Loop!Elements(r) \X Loop!Elements(r)
  <2>1. ASSUME NEW p \in Loop!OrderOf(r) PROVE p \in Loop!Elements(r) \X Loop!Elements(r)
    <3>1. PICK j \in 1..(n - 1) : p \in {<<r[k], r[j]>> : k \in 1..(j - 1)}
      BY <1>3 DEF Loop!OrderOf
    <3>2. PICK k \in 1..(j - 1) : p = <<r[k], r[j]>>
      BY <3>1
    <3>3. k \in 1..(n - 1)
      BY <1>3
    <3> QED BY <1>9, <3>2, <3>3
  <2> QED BY <2>1
<1>13. Loop!OrderOf(r) = Loop!OrderOf(s) \cap (Loop!Elements(r) \X Loop!Elements(r))
  BY <1>11, <1>12
<1>14. Loop!Elements(r) = Loop!Elements(s) \ {s[i]}
  BY <1>10
<1> QED BY <1>8, <1>13, <1>14 DEF r

\* What the scan looks for: a queued task is startable if and only if it is ready.  An
\* admitted task blocks nobody who is ready and comes before it, for there is nobody.
LEMMA StartableIsReady ==
  ASSUME LoopState, Cardinality(loop_a) < LoopCapacity, NEW i \in 1..Len(loop_q)
  PROVE  /\ Loop!CanStart(i) <=> loop_q[i] \in Ready
         /\ loop_q[i] \in Loop!Elements(loop_q)
         /\ loop_q[i] \in Ready => \A u \in loop_a : ~Loop!LeasesConflict(u, loop_q[i])
<1> DEFINE t == loop_q[i]
           E0 == Loop!Elements(loop_q0)
           O0 == Loop!OrderOf(loop_q0)
<1>1. /\ loop_q \in Loop!Arrays /\ loop_q0 \in Loop!Arrays /\ loop_a0 \subseteq loop_a
      /\ Loop!Elements(loop_q) = E0 \ loop_a
      /\ Loop!OrderOf(loop_q) = O0 \cap (Loop!Elements(loop_q) \X Loop!Elements(loop_q))
  BY DEF LoopState
<1>2. t \in Loop!Elements(loop_q) /\ t \in E0 /\ t \notin loop_a
  BY <1>1, ArrayIs
<1>3. \A u : t \in Ready <=> /\ \A v \in loop_a0 : ~Loop!LeasesConflict(v, t)
                             /\ \A v \in E0 : <<v, t>> \in O0 => ~Loop!LeasesConflict(v, t)
  BY <1>2 DEF Ready, Loop!Unblocked
<1>4. \A u : <<u, t>> \in Loop!OrderOf(loop_q) <=> \E j \in 1..(i - 1) : loop_q[j] = u
  <2>1. /\ i \in 1..Len(loop_q) /\ Len(loop_q) \in Nat
        /\ \A k, j \in 1..Len(loop_q) : k # j => loop_q[k] # loop_q[j]
        /\ \A u : <<u, t>> \in Loop!OrderOf(loop_q)
                    <=> \E k, j \in 1..Len(loop_q) : k < j /\ loop_q[k] = u /\ loop_q[j] = t
    <3>1. Len(loop_q) \in Nat
      BY <1>1, ArrayIs, LoopAssumption
    <3>2. \A k, j \in 1..Len(loop_q) : k # j => loop_q[k] # loop_q[j]
      BY <1>1, ArrayIs
    <3>3. \A u, v : <<u, v>> \in Loop!OrderOf(loop_q)
                       <=> \E k, j \in 1..Len(loop_q) : k < j /\ loop_q[k] = u /\ loop_q[j] = v
      BY <1>1, ArrayIs
    <3> QED BY <3>1, <3>2, <3>3
  <2>2. ASSUME NEW u, NEW j \in 1..(i - 1), loop_q[j] = u
        PROVE  <<u, t>> \in Loop!OrderOf(loop_q)
    <3>1. j \in 1..Len(loop_q) /\ j < i
      BY <2>1
    <3> QED BY <2>1, <2>2, <3>1
  <2>3. ASSUME NEW u, <<u, t>> \in Loop!OrderOf(loop_q)
        PROVE  \E j \in 1..(i - 1) : loop_q[j] = u
    <3>1. PICK k, j \in 1..Len(loop_q) : k < j /\ loop_q[k] = u /\ loop_q[j] = t
      BY <2>1, <2>3
    <3>2. j = i
      BY <2>1, <3>1
    <3>3. k \in 1..(i - 1)
      BY <2>1, <3>1, <3>2
    <3> QED BY <3>1, <3>3
  <2> QED BY <2>2, <2>3
<1>5. Loop!CanStart(i) <=> /\ \A u \in loop_a : ~Loop!LeasesConflict(u, t)
                           /\ \A u : <<u, t>> \in Loop!OrderOf(loop_q) => ~Loop!LeasesConflict(u, t)
  <2>1. Loop!CanStart(i) <=> /\ \A u \in loop_a : ~Loop!LeasesConflict(u, t)
                             /\ \A j \in 1..(i - 1) : ~Loop!LeasesConflict(loop_q[j], t)
    BY LoopCardinality DEF Loop!CanStart
  <2>2. ASSUME \A j \in 1..(i - 1) : ~Loop!LeasesConflict(loop_q[j], t),
               NEW u, <<u, t>> \in Loop!OrderOf(loop_q)
        PROVE  ~Loop!LeasesConflict(u, t)
    <3>1. PICK j \in 1..(i - 1) : loop_q[j] = u
      BY <1>4, <2>2
    <3> QED BY <2>2, <3>1
  <2>3. ASSUME \A u : <<u, t>> \in Loop!OrderOf(loop_q) => ~Loop!LeasesConflict(u, t),
               NEW j \in 1..(i - 1)
        PROVE  ~Loop!LeasesConflict(loop_q[j], t)
    BY <1>4, <2>3
  <2> QED BY <2>1, <2>2, <2>3
<1>6. ASSUME t \in Ready, NEW u \in loop_a PROVE ~Loop!LeasesConflict(u, t)
  <2>1. CASE u \in loop_a0
    BY <1>3, <1>6, <2>1
  <2>2. CASE u \in Admitted
    <3>1. u \in Ready /\ u \in E0
      BY <2>2 DEF LoopState, Ready, Loop!Unblocked
    <3>2. <<t, u>> \notin O0
      BY <1>2, <1>6, <2>2 DEF LoopState, Admitted
    <3>3. <<u, t>> \in O0
      <4>1. u # t
        BY <1>2, <1>6
      <4>2. PICK k, j \in 1..Len(loop_q0) : loop_q0[k] = u /\ loop_q0[j] = t
        BY <1>1, <1>2, <3>1, ArrayIs
      <4>3. k < j \/ j < k
        BY <1>1, <4>1, <4>2, ArrayIs, LoopAssumption
      <4>4. /\ k < j => <<u, t>> \in O0
            /\ j < k => <<t, u>> \in O0
        BY <1>1, <4>2, ArrayIs
      <4> QED BY <3>2, <4>3, <4>4
    <3> QED BY <1>3, <1>6, <3>1, <3>3
  <2> QED BY <1>6, <2>1, <2>2 DEF Admitted
<1>7. ASSUME t \in Ready, NEW u, <<u, t>> \in Loop!OrderOf(loop_q) PROVE ~Loop!LeasesConflict(u, t)
  BY <1>1, <1>3, <1>7
<1>8. ASSUME Loop!CanStart(i) PROVE t \in Ready
  <2>1. \A v \in loop_a0 : ~Loop!LeasesConflict(v, t)
    BY <1>1, <1>5, <1>8
  <2>2. ASSUME NEW v \in E0, <<v, t>> \in O0 PROVE ~Loop!LeasesConflict(v, t)
    <3>1. CASE v \in loop_a
      BY <1>5, <1>8, <3>1
    <3>2. CASE v \notin loop_a
      <4>1. <<v, t>> \in Loop!OrderOf(loop_q)
        BY <1>1, <1>2, <2>2, <3>2
      <4> QED BY <1>5, <1>8, <4>1
    <3> QED BY <3>1, <3>2
  <2> QED BY <1>3, <2>1, <2>2
<1>9. t \in Ready => Loop!CanStart(i)
  BY <1>5, <1>6, <1>7
<1> QED BY <1>2, <1>6, <1>8, <1>9

LEMMA InitLoop == Loop!Init => LoopState /\ LoopScan
<1> SUFFICES ASSUME Loop!Init PROVE LoopState /\ LoopScan
  OBVIOUS
<1>1. /\ loop_q0 \in Loop!Arrays /\ loop_a0 \in Loop!ActiveSets
      /\ loop_a0 \cap Loop!Elements(loop_q0) = {} /\ loop_q = loop_q0 /\ loop_a = loop_a0
      /\ loop_started = TRUE /\ loop_index = 1 /\ loop_pc = "while"
  BY DEF Loop!Init
<1>2. Admitted = {}
  BY <1>1 DEF Admitted
<1>3. Loop!OrderOf(loop_q) \subseteq Loop!Elements(loop_q) \X Loop!Elements(loop_q)
  <2>1. ASSUME NEW p \in Loop!OrderOf(loop_q)
        PROVE  p \in Loop!Elements(loop_q) \X Loop!Elements(loop_q)
    <3>1. PICK j \in DOMAIN loop_q : p \in {<<loop_q[k], loop_q[j]>> : k \in 1..(j - 1)}
      BY DEF Loop!OrderOf
    <3>2. PICK k \in 1..(j - 1) : p = <<loop_q[k], loop_q[j]>>
      BY <3>1
    <3>3. j \in 1..Len(loop_q) /\ Len(loop_q) \in Nat
      BY <1>1, ArrayIs, LoopAssumption
    <3>4. k \in 1..Len(loop_q)
      BY <3>3
    <3> QED BY <1>1, <3>2, <3>3, <3>4, ArrayIs
  <2> QED BY <2>1
<1>4. LoopState
  BY <1>1, <1>2, <1>3 DEF LoopState
<1>5. LoopScan
  BY <1>1, LoopAssumption DEF LoopScan
<1> QED BY <1>4, <1>5

\* Admitting the first one who is ready.
LEMMA StartOneKeepsLoop ==
  ASSUME LoopState, LoopScan, Loop!StartOne
  PROVE  LoopState' /\ LoopScan'
<1> DEFINE t == loop_q[loop_index]
           E0 == Loop!Elements(loop_q0)
           O0 == Loop!OrderOf(loop_q0)
<1>1. /\ loop_pc = "for" /\ loop_index <= Len(loop_q) /\ Loop!CanStart(loop_index)
      /\ loop_q' = Splice(loop_q, loop_index) /\ loop_a' = loop_a \cup {t}
      /\ loop_started' = TRUE /\ loop_pc' = "while"
      /\ UNCHANGED <<loop_q0, loop_a0, loop_index>>
  BY DEF Loop!StartOne, Loop!Spliced, Splice
<1>2. /\ loop_q \in Loop!Arrays /\ loop_q0 \in Loop!Arrays
      /\ loop_a0 \in Loop!ActiveSets /\ loop_a \in Loop!ActiveSets
      /\ loop_a0 \cap E0 = {} /\ loop_a0 \subseteq loop_a
      /\ Loop!Elements(loop_q) = E0 \ loop_a
      /\ Loop!OrderOf(loop_q) = O0 \cap (Loop!Elements(loop_q) \X Loop!Elements(loop_q))
  BY DEF LoopState
<1>3. Cardinality(loop_a) < LoopCapacity
  BY <1>1 DEF LoopScan
<1>4. loop_index \in 1..Len(loop_q)
  BY <1>1, <1>2, ArrayIs, LoopAssumption DEF LoopScan
<1>5. t \in Ready /\ t \in Loop!Elements(loop_q) /\ \A u \in loop_a : ~Loop!LeasesConflict(u, t)
  BY <1>1, <1>3, <1>4, StartableIsReady
<1>6. Ready' = Ready
  BY <1>1 DEF Ready
<1>7. t \in E0 /\ t \notin loop_a /\ Admitted' = Admitted \cup {t}
  BY <1>1, <1>2, <1>5 DEF Admitted
<1>8. /\ loop_q' \in Loop!Arrays
      /\ Loop!Elements(loop_q') = Loop!Elements(loop_q) \ {t}
      /\ Loop!OrderOf(loop_q')
           = Loop!OrderOf(loop_q) \cap (Loop!Elements(loop_q') \X Loop!Elements(loop_q'))
  BY <1>1, <1>2, <1>4, SplicedArray
<1>9. loop_a' \in Loop!ActiveSets
  <2>1. /\ loop_a \subseteq LoopTasks /\ Cardinality(loop_a) <= LoopCapacity
        /\ \A v, w \in loop_a : v # w => ~Loop!LeasesConflict(v, w)
    <3>1. loop_a \in Loop!ActiveSets
      BY <1>2
    <3> QED BY <3>1, LoopCardinality DEF Loop!ActiveSets
  <2>2. t \in LoopTasks
    BY <1>2, <1>4, ArrayIs
  <2>3. IsFiniteSet(loop_a)
    BY <2>1, LoopAssumption, FS_Subset
  <2>4. Cardinality(loop_a') = Cardinality(loop_a) + 1 /\ Cardinality(loop_a) \in Nat
    BY <1>1, <1>7, <2>3, FS_AddElement, FS_CardinalityType
  <2>5. Cardinality(loop_a') <= LoopCapacity
    BY <1>3, <2>4, LoopAssumption
  <2>6. ASSUME NEW v \in loop_a', NEW w \in loop_a', v # w PROVE ~Loop!LeasesConflict(v, w)
    <3>1. \A x, y : Loop!LeasesConflict(x, y) <=> Loop!LeasesConflict(y, x)
      BY DEF Loop!LeasesConflict, Loop!SharesResource
    <3>2. v = t \/ v \in loop_a
      BY <1>1
    <3>3. w = t \/ w \in loop_a
      BY <1>1
    <3> QED BY <1>5, <2>1, <2>6, <3>1, <3>2, <3>3
  <2>7. loop_a' \in SUBSET LoopTasks
    BY <1>1, <2>1, <2>2
  <2> QED BY <2>5, <2>6, <2>7, LoopCardinality DEF Loop!ActiveSets
<1>10. ASSUME NEW u \in Ready, <<u, t>> \in O0 PROVE u \in Admitted
  <2>1. u \in E0
    BY DEF Ready, Loop!Unblocked
  <2>2. CASE u \in loop_a
    BY <1>2, <2>1, <2>2 DEF Admitted
  <2>3. CASE u \notin loop_a
    <3>1. <<u, t>> \in Loop!OrderOf(loop_q)
      BY <1>2, <1>5, <1>10, <2>1, <2>3
    <3>2. PICK k, j \in 1..Len(loop_q) : k < j /\ loop_q[k] = u /\ loop_q[j] = t
      BY <1>2, <3>1, ArrayIs
    <3>3. j = loop_index
      BY <1>2, <1>4, <3>2, ArrayIs
    <3>4. Len(loop_q) \in Nat
      BY <1>2, ArrayIs, LoopAssumption
    <3>5. k \in 1..(loop_index - 1) /\ k \in DOMAIN loop_q
      BY <1>2, <3>2, <3>3, <3>4, ArrayIs
    <3>6. loop_q[k] \notin Ready
      BY <1>1, <3>5 DEF LoopScan
    <3> QED BY <3>2, <3>6
  <2> QED BY <2>2, <2>3
<1>11. \A x \in Admitted', u \in Ready : <<u, x>> \in O0 => u \in Admitted'
  BY <1>7, <1>10 DEF LoopState
<1>12. /\ Loop!Elements(loop_q') = E0 \ loop_a'
       /\ Loop!OrderOf(loop_q') = O0 \cap (Loop!Elements(loop_q') \X Loop!Elements(loop_q'))
  BY <1>1, <1>2, <1>8
<1>13. Admitted' \subseteq Ready
  BY <1>5, <1>7 DEF LoopState
<1>14. LoopState'
  BY <1>1, <1>2, <1>6, <1>8, <1>9, <1>11, <1>12, <1>13 DEF LoopState
<1>15. LoopScan'
  BY <1>1 DEF LoopScan
<1> QED BY <1>14, <1>15

LEMMA StepLoop ==
  ASSUME LoopState, LoopScan, [Loop!Next]_loop_vars
  PROVE  LoopState' /\ LoopScan'
<1>1. /\ loop_q \in Loop!Arrays /\ loop_q0 \in Loop!Arrays
      /\ Loop!Elements(loop_q) = Loop!Elements(loop_q0) \ loop_a
      /\ Len(loop_q) \in 0..LoopQueued /\ DOMAIN loop_q = 1..Len(loop_q)
      /\ LoopQueued \in Nat /\ Len(loop_q) \in Nat
  BY ArrayIs, LoopAssumption DEF LoopState
<1>2. ASSUME UNCHANGED <<loop_q0, loop_a0, loop_q, loop_a>>
      PROVE  LoopState' /\ Ready' = Ready /\ Admitted' = Admitted
  BY <1>2 DEF LoopState, Ready, Admitted
<1>3. CASE Loop!WhileTest
  <2>1. LoopState' /\ Ready' = Ready /\ Admitted' = Admitted
    BY <1>2, <1>3 DEF Loop!WhileTest
  <2>2. CASE Loop!WhileGoesOn /\ loop_started' = FALSE /\ loop_index' = 1 /\ loop_pc' = "for"
    <3>1. loop_started' \in BOOLEAN /\ ~loop_started' /\ loop_pc' \in {"while", "for", "done"}
      BY <2>2
    <3>2. loop_index' \in 1..(LoopQueued + 1)
      BY <1>1, <2>2
    <3>3. Cardinality(loop_a') < LoopCapacity
      BY <1>3, <2>2, LoopCardinality DEF Loop!WhileTest, Loop!WhileGoesOn
    <3>4. \A j \in 1..(loop_index' - 1) : FALSE
      BY <2>2
    <3> QED BY <2>1, <2>2, <3>1, <3>2, <3>3, <3>4 DEF LoopScan
  <2>3. CASE ~Loop!WhileGoesOn /\ loop_pc' = "done" /\ UNCHANGED <<loop_started, loop_index>>
    <3>1. loop_pc = "while" /\ UNCHANGED loop_a
      BY <1>3 DEF Loop!WhileTest
    <3>2. CASE ~loop_started
      BY <2>1, <2>3, <3>1, <3>2 DEF LoopScan
    <3>3. CASE ~(Cardinality(loop_a) < LoopCapacity)
      <4>1. Cardinality(loop_a) \in Nat
        <5>1. loop_a \subseteq LoopTasks
          <6>1. loop_a \in Loop!ActiveSets
            BY DEF LoopState
          <6> QED BY <6>1 DEF Loop!ActiveSets
        <5>2. IsFiniteSet(loop_a)
          BY <5>1, LoopAssumption, FS_Subset
        <5> QED BY <5>2, FS_CardinalityType
      <4>2. Cardinality(loop_a) >= LoopCapacity
        BY <3>3, <4>1, LoopAssumption
      <4>3. Cardinality(loop_a') >= LoopCapacity
        BY <3>1, <4>2
      <4>4. /\ loop_started' \in BOOLEAN /\ loop_index' \in 1..(LoopQueued + 1)
            /\ loop_pc' \in {"while", "for", "done"}
        BY <2>3 DEF LoopScan
      <4>5. loop_pc' = "done" /\ loop_pc' # "for" /\ loop_pc' # "while"
        BY <2>3
      <4> QED BY <2>1, <4>3, <4>4, <4>5 DEF LoopScan
    <3> QED BY <2>3, <3>2, <3>3, LoopCardinality DEF Loop!WhileGoesOn
  <2> QED BY <1>3, <2>2, <2>3 DEF Loop!WhileTest
<1>4. CASE Loop!StartOne
  BY <1>4, StartOneKeepsLoop
<1>5. CASE Loop!SkipOne
  <2>1. LoopState' /\ Ready' = Ready /\ Admitted' = Admitted
    BY <1>2, <1>5 DEF Loop!SkipOne
  <2>2. /\ loop_pc = "for" /\ loop_index <= Len(loop_q) /\ ~Loop!CanStart(loop_index)
        /\ loop_index' = loop_index + 1 /\ UNCHANGED <<loop_q, loop_a, loop_started, loop_pc>>
    BY <1>5 DEF Loop!SkipOne
  <2>3. loop_index \in 1..Len(loop_q) /\ loop_index \in Nat
    BY <1>1, <2>2 DEF LoopScan
  <2>4. loop_q[loop_index] \notin Ready
    BY <2>2, <2>3, StartableIsReady DEF LoopScan
  <2>5. ASSUME NEW j \in 1..(loop_index' - 1), j \in DOMAIN loop_q'
        PROVE  loop_q'[j] \notin Ready'
    <3>1. j = loop_index \/ j \in 1..(loop_index - 1)
      BY <2>2, <2>3
    <3> QED BY <2>1, <2>2, <2>4, <2>5, <3>1 DEF LoopScan
  <2>6. loop_index' \in 1..(LoopQueued + 1)
    BY <1>1, <2>2, <2>3
  <2>7. LoopScan'
    BY <2>1, <2>2, <2>5, <2>6 DEF LoopScan
  <2> QED BY <2>1, <2>7
<1>6. CASE Loop!EndOfScan
  <2>1. LoopState' /\ Ready' = Ready /\ Admitted' = Admitted
    BY <1>2, <1>6 DEF Loop!EndOfScan
  <2>2. /\ loop_pc = "for" /\ loop_index > Len(loop_q) /\ loop_pc' = "while"
        /\ UNCHANGED <<loop_q, loop_a, loop_started, loop_index>>
    BY <1>6 DEF Loop!EndOfScan
  <2>3. ASSUME NEW t \in Ready PROVE t \in Admitted
    <3>1. t \in Loop!Elements(loop_q0)
      BY DEF Ready, Loop!Unblocked
    <3>2. t \notin Loop!Elements(loop_q)
      <4>1. SUFFICES ASSUME NEW i \in 1..Len(loop_q), loop_q[i] = t PROVE FALSE
        BY <1>1, ArrayIs
      <4>2. i \in 1..(loop_index - 1) /\ i \in DOMAIN loop_q
        BY <1>1, <2>2 DEF LoopScan
      <4> QED BY <2>2, <4>1, <4>2 DEF LoopScan
    <3> QED BY <1>1, <3>1, <3>2 DEF Admitted, LoopState
  <2>4. LoopScan'
    BY <2>1, <2>2, <2>3 DEF LoopScan
  <2> QED BY <2>1, <2>4
<1>7. CASE UNCHANGED loop_vars
  <2>1. UNCHANGED <<loop_q0, loop_a0, loop_q, loop_a, loop_started, loop_index, loop_pc>>
    BY <1>7 DEF loop_vars
  <2>2. LoopState' /\ Ready' = Ready /\ Admitted' = Admitted
    BY <1>2, <2>1
  <2> QED BY <2>1, <2>2 DEF LoopScan
<1> QED BY <1>3, <1>4, <1>5, <1>6, <1>7 DEF Loop!Next

-----------------------------------------------------------------------------
\* An initial part of an order that fills the free slots, or is everything, is the only one.
LEMMA InitialPartUnique ==
  ASSUME NEW R, IsFiniteSet(R), NEW O, NEW f \in Int,
         \A t, u \in R : t # u => <<t, u>> \in O \/ <<u, t>> \in O,
         NEW S \in SUBSET R, \A t \in S, u \in R : <<u, t>> \in O => u \in S,
         S # {} => Cardinality(S) <= f, S # R => Cardinality(S) >= f,
         NEW T \in SUBSET R, \A t \in T, u \in R : <<u, t>> \in O => u \in T,
         T # {} => Cardinality(T) <= f, T # R => Cardinality(T) >= f
  PROVE  S = T
<1>1. IsFiniteSet(S) /\ IsFiniteSet(T)
  BY FS_Subset
<1>2. Cardinality(S) \in Nat /\ Cardinality(T) \in Nat
  BY <1>1, FS_CardinalityType
<1>3. S \subseteq T \/ T \subseteq S
  <2>1. SUFFICES ASSUME NEW x \in S, x \notin T, NEW y \in T, y \notin S PROVE FALSE
    OBVIOUS
  <2>2. <<x, y>> \in O \/ <<y, x>> \in O
    BY <2>1
  <2> QED BY <2>1, <2>2
<1>4. ASSUME S \subseteq T, S # T PROVE FALSE
  <2>1. Cardinality(T) <= f /\ f <= Cardinality(S)
    BY <1>2, <1>4
  <2>2. Cardinality(S) <= Cardinality(T) /\ (Cardinality(T) = Cardinality(S) => T = S)
    BY <1>1, <1>4, FS_Subset
  <2> QED BY <1>2, <1>4, <2>1, <2>2
<1>5. ASSUME T \subseteq S, S # T PROVE FALSE
  <2>1. Cardinality(S) <= f /\ f <= Cardinality(T)
    BY <1>2, <1>5
  <2>2. Cardinality(T) <= Cardinality(S) /\ (Cardinality(S) = Cardinality(T) => S = T)
    BY <1>1, <1>5, FS_Subset
  <2> QED BY <1>2, <1>5, <2>1, <2>2
<1> QED BY <1>3, <1>4, <1>5

\* One of two elements of an array comes before the other.
LEMMA ArrayIsOrdered ==
  ASSUME NEW s \in Loop!Arrays, NEW t \in Loop!Elements(s), NEW u \in Loop!Elements(s), t # u
  PROVE  <<t, u>> \in Loop!OrderOf(s) \/ <<u, t>> \in Loop!OrderOf(s)
<1>1. PICK i \in 1..Len(s) : s[i] = t
  BY ArrayIs
<1>2. PICK j \in 1..Len(s) : s[j] = u
  BY ArrayIs
<1>3. Len(s) \in Nat
  BY ArrayIs, LoopAssumption
<1>4. i < j \/ j < i
  BY <1>1, <1>2, <1>3
<1>5. /\ i < j => <<t, u>> \in Loop!OrderOf(s)
      /\ j < i => <<u, t>> \in Loop!OrderOf(s)
  BY <1>1, <1>2, ArrayIs
<1> QED BY <1>4, <1>5

\* What Drains says of a set, in the library's Cardinality.
DescribedBy(S) ==
  /\ S \subseteq Ready
  /\ \A t \in S, u \in Ready : <<u, t>> \in Loop!OrderOf(loop_q0) => u \in S
  /\ S # {} => Cardinality(S) <= LoopCapacity - Cardinality(loop_a0)
  /\ S # Ready => Cardinality(S) >= LoopCapacity - Cardinality(loop_a0)

LEMMA DrainsIs ==
  ASSUME NEW S
  PROVE  Loop!Drains(Loop!Elements(loop_q0), loop_a0, Loop!OrderOf(loop_q0), S) <=> DescribedBy(S)
BY LoopCardinality DEF Loop!Drains, Loop!FreeSlots, DescribedBy, Ready

\* When the loop is over, whom it admitted is what Drains describes.
LEMMA AdmittedDescribed ==
  ASSUME LoopState, LoopScan, loop_pc = "done"
  PROVE  DescribedBy(Admitted)
<1>1. /\ loop_a0 \in Loop!ActiveSets /\ loop_a \in Loop!ActiveSets /\ loop_a0 \subseteq loop_a
      /\ Admitted \subseteq Ready
      /\ \A t \in Admitted, u \in Ready : <<u, t>> \in Loop!OrderOf(loop_q0) => u \in Admitted
  BY DEF LoopState
<1>2. loop_a \subseteq LoopTasks /\ Cardinality(loop_a) <= LoopCapacity
  BY <1>1, LoopCardinality DEF Loop!ActiveSets
<1>3. IsFiniteSet(loop_a)
  BY <1>2, LoopAssumption, FS_Subset
<1>4. IsFiniteSet(loop_a0) /\ IsFiniteSet(Admitted)
  <2>1. loop_a0 \in SUBSET loop_a /\ Admitted \in SUBSET loop_a
    BY <1>1 DEF Admitted
  <2> QED BY <1>3, <2>1, FS_Subset
<1>5. loop_a0 \cup Admitted = loop_a /\ loop_a0 \cap Admitted = {}
  BY <1>1 DEF Admitted
<1>6. Cardinality(loop_a) = Cardinality(loop_a0) + Cardinality(Admitted) - Cardinality({})
  BY <1>4, <1>5, FS_Union
<1>7. /\ Cardinality(loop_a) \in Nat /\ Cardinality(loop_a0) \in Nat
      /\ Cardinality(Admitted) \in Nat /\ LoopCapacity \in Int
  BY <1>3, <1>4, FS_CardinalityType, LoopAssumption
<1>8. Cardinality(Admitted) <= LoopCapacity - Cardinality(loop_a0)
  BY <1>2, <1>6, <1>7, FS_EmptySet
<1>9. ASSUME Admitted # Ready PROVE Cardinality(Admitted) >= LoopCapacity - Cardinality(loop_a0)
  <2>1. ~(Ready \subseteq Admitted)
    BY <1>1, <1>9
  <2>2. Cardinality(loop_a) >= LoopCapacity
    BY <2>1 DEF LoopScan
  <2> QED BY <1>6, <1>7, <2>2, FS_EmptySet
<1> QED BY <1>1, <1>8, <1>9 DEF DescribedBy

\* And nothing else is.
LEMMA DescribedUnique ==
  ASSUME LoopState, NEW S, DescribedBy(S), DescribedBy(Admitted)
  PROVE  S = Admitted
<1> DEFINE f == LoopCapacity - Cardinality(loop_a0)
<1>1. Ready \subseteq Loop!Elements(loop_q0) /\ loop_q0 \in Loop!Arrays
  BY DEF Ready, Loop!Unblocked, LoopState
<1>2. IsFiniteSet(Ready)
  <2>1. Ready \subseteq LoopTasks
    BY <1>1, ArrayIs
  <2> QED BY <2>1, LoopAssumption, FS_Subset
<1>3. f \in Int
  <2>1. loop_a0 \in Loop!ActiveSets
    BY DEF LoopState
  <2>2. loop_a0 \in SUBSET LoopTasks
    BY <2>1 DEF Loop!ActiveSets
  <2>3. IsFiniteSet(loop_a0)
    BY <2>2, LoopAssumption, FS_Subset
  <2>4. Cardinality(loop_a0) \in Nat
    BY <2>3, FS_CardinalityType
  <2> QED BY <2>4, LoopAssumption
<1>4. \A t, u \in Ready :
        t # u => <<t, u>> \in Loop!OrderOf(loop_q0) \/ <<u, t>> \in Loop!OrderOf(loop_q0)
  BY <1>1, ArrayIsOrdered
<1>5. /\ S \in SUBSET Ready
      /\ \A t \in S, u \in Ready : <<u, t>> \in Loop!OrderOf(loop_q0) => u \in S
      /\ S # {} => Cardinality(S) <= f
      /\ S # Ready => Cardinality(S) >= f
  BY DEF DescribedBy
<1>6. /\ Admitted \in SUBSET Ready
      /\ \A t \in Admitted, u \in Ready : <<u, t>> \in Loop!OrderOf(loop_q0) => u \in Admitted
      /\ Admitted # {} => Cardinality(Admitted) <= f
      /\ Admitted # Ready => Cardinality(Admitted) >= f
  BY DEF DescribedBy
<1> HIDE DEF f
<1> QED BY <1>2, <1>3, <1>4, <1>5, <1>6, InitialPartUnique

LEMMA LoopComputes ==
  ASSUME LoopState, LoopScan
  PROVE  Loop!TypeOK /\ Loop!LoopComputesDrain /\ Loop!LoopKeepsLeases
<1>1. /\ loop_q0 \in Loop!Arrays /\ loop_q \in Loop!Arrays
      /\ loop_a0 \in Loop!ActiveSets /\ loop_a \in Loop!ActiveSets
      /\ Loop!Elements(loop_q) = Loop!Elements(loop_q0) \ loop_a
      /\ Loop!OrderOf(loop_q)
           = Loop!OrderOf(loop_q0) \cap (Loop!Elements(loop_q) \X Loop!Elements(loop_q))
  BY DEF LoopState
<1>2. loop_a0 \subseteq LoopTasks /\ loop_a \subseteq LoopTasks
  BY <1>1 DEF Loop!ActiveSets
<1>3. Loop!TypeOK
  BY <1>1, <1>2 DEF Loop!TypeOK, LoopScan
<1>4. ASSUME loop_pc = "done"
      PROVE  {S \in SUBSET Loop!Elements(loop_q0) :
                Loop!Drains(Loop!Elements(loop_q0), loop_a0, Loop!OrderOf(loop_q0), S)}
               = {Admitted}
  <2>1. DescribedBy(Admitted)
    BY <1>4, AdmittedDescribed
  <2>2. Admitted \in SUBSET Loop!Elements(loop_q0)
    BY DEF LoopState, Ready, Loop!Unblocked
  <2>3. ASSUME NEW S
        PROVE  Loop!Drains(Loop!Elements(loop_q0), loop_a0, Loop!OrderOf(loop_q0), S)
                 <=> S = Admitted
    BY <2>1, DrainsIs, DescribedUnique
  <2> QED BY <2>2, <2>3
<1>5. Loop!LoopComputesDrain
  BY <1>1, <1>4 DEF Loop!LoopComputesDrain, Admitted
<1> QED BY <1>1, <1>3, <1>5 DEF Loop!LoopKeepsLeases

\* The loop of drain() admits exactly the tasks Drains describes, and nothing else answers to
\* that description; the other tasks stay in the array in their order; and on the way no two
\* active tasks ever hold conflicting leases.
THEOREM LoopComputesWhatDrainsSays == MCSpec => []LoopComputesDrain
<1>1. MCInit => LoopInv
  BY InitLoop DEF MCInit, LoopBegins, LoopInv
<1>2. LoopInv /\ [MCNext]_MCVars => LoopInv'
  <2> SUFFICES ASSUME LoopInv, [MCNext]_MCVars PROVE LoopInv'
    OBVIOUS
  <2>1. UNCHANGED which
    BY DEF MCNext, MCVars
  <2>2. SUFFICES ASSUME which = "loop" PROVE LoopState' /\ LoopScan'
    BY <2>1 DEF LoopInv
  <2>3. [Loop!Next]_loop_vars
    BY <2>2 DEF MCNext, MCVars
  <2> QED BY <2>2, <2>3, StepLoop DEF LoopInv
<1>3. LoopInv => LoopComputesDrain
  BY LoopComputes DEF LoopInv, LoopComputesDrain
<1> QED
  BY <1>1, <1>2, <1>3, PTL DEF MCSpec
=============================================================================
