------------------------------ MODULE CommandRun ------------------------------
(***************************************************************************)
(* The commands one process runs: SandboxedCommandRunner.run of            *)
(* src/runtime/command-runner.ts with CommandSandbox of sandbox.ts below   *)
(* it and the package scripts of structured-processes.ts above it.         *)
(*                                                                         *)
(* A process runs one command at a time: the queue of the OperationBroker  *)
(* in the main process, the sequential tools in that of a turn.  A command *)
(* is a group of processes on a POSIX system: its leader, and one that the *)
(* leader has started and that may outlive it.  The processes stay in      *)
(* their group.  What they write is left out, but for the pipe they hold.  *)
(***************************************************************************)
EXTENDS Naturals, FiniteSets

CONSTANTS Commands,
          KeyOf,     \* a function: the workspace of each command and its access to it
          None

VARIABLES
  stage,        \* where run() is with each command
  current,      \* the command under way, or None
  aborted,      \* commands whose signal is aborted
  heard,        \* this run has the abort listener on its signal
  timer,        \* its timeout is armed
  group,        \* processes of its group that live
  deaf,         \* those of them that ignore SIGTERM
  holds,        \* those of them that hold its pipes
  signal,       \* what the group was sent: none, term, kill
  flags,        \* timedOut, cancelled
  initialized,  \* CommandSandbox.initializedFor
  configured,   \* the key SandboxManager is configured for, or None
  within        \* history: the configuration each command was started with

run == <<heard, timer, group, deaf, holds, signal, flags>>
sandbox == <<initialized, configured>>
vars == <<stage, current, aborted, run, sandbox, within>>

NoFlags == [timedOut |-> FALSE, cancelled |-> FALSE]

Init ==
  /\ stage = [c \in Commands |-> "new"] /\ current = None /\ aborted = {}
  /\ heard = FALSE /\ timer = FALSE /\ group = {} /\ deaf = {} /\ holds = {}
  /\ signal = "none" /\ flags = NoFlags
  /\ initialized = None /\ configured = None
  /\ within = [c \in Commands |-> None]

At(c, s) == current = c /\ stage[c] = s
Goes(c, s) == stage' = [stage EXCEPT ![c] = s]
Over(c, s) == Goes(c, s) /\ current' = None

-----------------------------------------------------------------------------
(* Before the command. *)
\* executeApprovedScript and commandTool: the binding is verified, or the caller gets an
\* error; nothing there looks at the signal.
Ask(c) ==
  /\ stage[c] = "new" /\ current = None
  /\ \/ Goes(c, "asked") /\ current' = c
     \/ Over(c, "refused")
  /\ UNCHANGED <<aborted, run, sandbox, within>>

\* wrap: another key than the last one resets the manager first.
ResetManager(c) ==
  /\ At(c, "asked") /\ initialized # KeyOf[c]
  /\ configured' = IF initialized # None THEN None ELSE configured
  /\ Goes(c, "reset")
  /\ UNCHANGED <<current, aborted, run, initialized, within>>

\* discoverProtectedPaths, and SandboxManager.initialize: it may fail.
Initialize(c) ==
  /\ At(c, "reset")
  /\ \/ configured' = KeyOf[c] /\ initialized' = KeyOf[c] /\ Goes(c, "ready") /\ UNCHANGED current
     \/ Over(c, "refused") /\ UNCHANGED sandbox
  /\ UNCHANGED <<aborted, run, within>>

SameKey(c) ==
  /\ At(c, "asked") /\ initialized = KeyOf[c]
  /\ Goes(c, "ready")
  /\ UNCHANGED <<current, aborted, run, sandbox, within>>

\* Mutant: whether the manager is still configured is not asked.
AlwaysEnabled == TRUE

SandboxingEnabled == configured # None

\* isSandboxingEnabled, and wrapWithSandboxArgv: it may fail.
Wrap(c) ==
  /\ At(c, "ready")
  /\ \/ SandboxingEnabled /\ Goes(c, "wrapped") /\ UNCHANGED current
     \/ Over(c, "refused")
  /\ UNCHANGED <<aborted, run, sandbox, within>>

-----------------------------------------------------------------------------
(* The command. *)
\* A signal that was aborted meanwhile tells its listener nothing more.
Listens(c) == c \notin aborted

Spawn(c) ==
  /\ At(c, "wrapped")
  /\ group' = {"leader", "child"}
  /\ \E ignoring, piped \in SUBSET {"leader", "child"} :
       deaf' = ignoring /\ holds' = piped
  /\ signal' = "none"
  /\ flags' = [NoFlags EXCEPT !.cancelled = c \in aborted]
  /\ heard' = Listens(c) /\ timer' = TRUE
  /\ Goes(c, "running")
  /\ within' = [within EXCEPT ![c] = configured]
  /\ UNCHANGED <<current, aborted, sandbox>>

\* spawn fails: the event error.
SpawnFails(c) ==
  /\ At(c, "wrapped") /\ Over(c, "refused")
  /\ UNCHANGED <<aborted, run, sandbox, within>>

\* A process ends of itself, or of a signal that it does not ignore.
Exits(p) ==
  /\ p \in group
  /\ group' = group \ {p}
  /\ UNCHANGED <<stage, current, aborted, heard, timer, deaf, holds, signal, flags, sandbox, within>>

Dies(p) ==
  /\ signal = "kill" \/ (signal = "term" /\ p \notin deaf)
  /\ Exits(p)

\* terminateProcessTree: SIGTERM for the whole group, and two seconds later SIGKILL.
Terminate == signal' = IF signal = "kill" THEN "kill" ELSE "term"

\* Mutant: the second signal is the first one again.
KillTimerAsksAgain ==
  /\ signal = "term"
  /\ signal' = "term"
  /\ UNCHANGED <<stage, current, aborted, heard, timer, group, deaf, holds, flags, sandbox, within>>

KillTimer ==
  /\ signal = "term"
  /\ signal' = "kill"
  /\ UNCHANGED <<stage, current, aborted, heard, timer, group, deaf, holds, flags, sandbox, within>>

Timeout(c) ==
  /\ At(c, "running") /\ timer
  /\ timer' = FALSE /\ flags' = [flags EXCEPT !.timedOut = TRUE]
  /\ Terminate
  /\ UNCHANGED <<stage, current, aborted, heard, group, deaf, holds, sandbox, within>>

\* The caller's signal is aborted: a stop, the presence deadline, the end of the turn.
Abort(c) ==
  /\ c \notin aborted /\ current = c
  /\ aborted' = aborted \cup {c}
  /\ IF stage[c] = "running" /\ heard
     THEN heard' = FALSE /\ flags' = [flags EXCEPT !.cancelled = TRUE] /\ Terminate
     ELSE UNCHANGED <<heard, flags, signal>>
  /\ UNCHANGED <<stage, current, timer, group, deaf, holds, sandbox, within>>

\* close: the leader has exited, and nobody holds the pipes.
Closed == "leader" \notin group /\ group \cap holds = {}

\* finish: what is left of the group is nobody's, but for a SIGKILL that is on its way.
Finish(c) ==
  /\ At(c, "running") /\ Closed
  /\ Over(c, IF flags.cancelled THEN "cancelled" ELSE IF flags.timedOut THEN "timedOut" ELSE "done")
  /\ heard' = FALSE /\ timer' = FALSE /\ flags' = NoFlags
  /\ group' = {} /\ deaf' = {} /\ holds' = {} /\ signal' = "none"
  /\ UNCHANGED <<aborted, sandbox, within>>

\* SandboxedCommandRunner.reset at the end of a turn.
Reset ==
  /\ current = None
  /\ initialized' = None /\ configured' = None
  /\ UNCHANGED <<stage, current, aborted, run, within>>

Step(c) ==
  \/ ResetManager(c) \/ Initialize(c) \/ SameKey(c) \/ Wrap(c)
  \/ Spawn(c) \/ SpawnFails(c) \/ Finish(c)

Next ==
  \/ \E c \in Commands : Ask(c) \/ Step(c) \/ Timeout(c) \/ Abort(c)
  \/ \E p \in {"leader", "child"} : Exits(p) \/ Dies(p)
  \/ KillTimer
  \/ Reset

(* The code goes on, the timers fire, and a process that was killed is     *)
(* gone.  Nothing says that a command ends of itself.                      *)
Fairness ==
  /\ \A c \in Commands : WF_vars(Step(c)) /\ WF_vars(Timeout(c))
  /\ \A p \in {"leader", "child"} : WF_vars(Dies(p))
  /\ WF_vars(KillTimer)

Spec == Init /\ [][Next]_vars
FairSpec == Spec /\ Fairness

-----------------------------------------------------------------------------
(* Properties. *)
\* A command runs under the rules made for its own workspace and its own access to it,
\* however often the one before it was for another, and whichever of the resets and
\* initializations between them failed.  (sandbox.ts 158-186.)
RunsInItsSandbox ==
  \A c \in Commands :
    stage[c] \in {"running", "done", "timedOut", "cancelled"} => within[c] = KeyOf[c]

\* Whoever waits for a command gets an answer, with a command that ends, one that waits
\* for ever, and one that ignores SIGTERM; and also when the signal was aborted while the
\* sandbox was prepared, which no listener hears.  (command-runner.ts 142-176.)
CommandsEnd == \A c \in Commands : current = c ~> current # c
===============================================================================
