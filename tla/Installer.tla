------------------------------- MODULE Installer -------------------------------
(***************************************************************************)
(* The launcher (packages/agent-launcher/lib): install, and what it finds  *)
(* of an update that has to be confirmed by a healthy start                *)
(* (installer.mjs), `update apply` (update.mjs), and the application,      *)
(* which writes the marker (src/main/update-health.ts).                    *)
(*                                                                         *)
(* Everything is in files, each written, renamed or removed by a step of   *)
(* its own; a launcher may end between any two, and several may run at     *)
(* once: nothing locks them out.  What is downloaded is verified before    *)
(* the first of these steps, and is its version here.                      *)
(***************************************************************************)
EXTENDS Naturals

CONSTANTS Launchers,
          Versions,
          None,
          Broken,        \* a directory that was being removed when its launcher ended
          MaxTokens      \* bound: updates ever activated

VARIABLES
  app, rollback,   \* the directories: a version, Broken, or None
  receipt,         \* receipt.json: the version it speaks of
  pending,         \* pending-activation.json
  marker,          \* health-marker.json
  launcher,        \* each launcher
  running,         \* the application: its version, and the token it was started with
  tokens,          \* tokens made
  owed             \* history: "application" when an install has ended well, "forgone" when
                   \* a marker has come while a launcher took it for missing

vars == <<app, rollback, receipt, pending, marker, launcher, running, tokens, owed>>

Idle == [at |-> "idle", version |-> None, healthy |-> FALSE, old |-> None,
         exists |-> FALSE, backedUp |-> FALSE, activated |-> FALSE, pending |-> None]

Init ==
  /\ app = None /\ rollback = None /\ receipt = None /\ pending = None /\ marker = None
  /\ launcher = [l \in Launchers |-> Idle] /\ running = None /\ tokens = 0 /\ owed = "nothing"

At(l, at) == launcher[l].at = at
To(l, at) == launcher' = [launcher EXCEPT ![l].at = at]
Ends(l) == launcher' = [launcher EXCEPT ![l] = Idle]
Owe == owed' = IF owed = "nothing" THEN "application" ELSE owed
\* The catch of install: remove what was activated, then put back what was kept.
Catch(l) == IF launcher[l].activated THEN "catch" ELSE "putBack"

-----------------------------------------------------------------------------
Starts(l, version, healthy) ==
  /\ At(l, "idle")
  /\ launcher' = [launcher EXCEPT ![l] = [Idle EXCEPT !.at = "reconcile", !.version = version,
                                                       !.healthy = healthy]]
  /\ UNCHANGED <<app, rollback, receipt, pending, marker, running, tokens, owed>>

\* install, pair and launch: the version is that of the launcher, of which there are old ones.
Install(l, version) == Starts(l, version, FALSE)

\* update apply: a launcher is offered a later version, which has to start well.
Update(l, own, version) == version > own /\ Starts(l, version, TRUE)

\* reconcilePendingActivation.
Healthy == marker = [version |-> pending.target, token |-> pending.token]

\* Mutant: nobody looks whether there is something to roll back to.
ReconcileBlindly(l) ==
  /\ At(l, "reconcile")
  /\ IF pending = None THEN To(l, "inspect")
     ELSE IF Healthy THEN To(l, "confirm")
     ELSE launcher' = [launcher EXCEPT
            ![l].at = IF pending.late THEN "overdue" ELSE "inspect",
            ![l].pending = IF pending.late \/ marker = None THEN pending ELSE None]
  /\ UNCHANGED <<app, rollback, receipt, pending, marker, running, tokens, owed>>

Reconcile(l) ==
  /\ At(l, "reconcile")
  /\ IF pending = None THEN To(l, "inspect")
     ELSE IF rollback = None THEN Ends(l)
     ELSE IF Healthy THEN To(l, "confirm")
     ELSE launcher' = [launcher EXCEPT
            ![l].at = IF pending.late THEN "overdue" ELSE "inspect",
            ![l].pending = IF pending.late \/ marker = None THEN pending ELSE None]
  /\ UNCHANGED <<app, rollback, receipt, pending, marker, running, tokens, owed>>

Confirm(l) ==
  /\ At(l, "confirm") /\ To(l, "confirmMarker")
  /\ rollback' = None
  /\ UNCHANGED <<app, receipt, pending, marker, running, tokens, owed>>

ConfirmMarker(l) ==
  /\ At(l, "confirmMarker") /\ To(l, "confirmPending")
  /\ marker' = None
  /\ UNCHANGED <<app, rollback, receipt, pending, running, tokens, owed>>

ConfirmPending(l) ==
  /\ At(l, "confirmPending") /\ To(l, "inspect")
  /\ pending' = None
  /\ UNCHANGED <<app, rollback, receipt, marker, running, tokens, owed>>

Overdue(l) ==
  /\ At(l, "overdue") /\ To(l, IF running # None THEN "inspect" ELSE "rollBack")
  /\ UNCHANGED <<app, rollback, receipt, pending, marker, running, tokens, owed>>

RollBack(l) ==
  /\ At(l, "rollBack") /\ To(l, "rollBackApp")
  /\ app' = None
  /\ UNCHANGED <<rollback, receipt, pending, marker, running, tokens, owed>>

\* A directory is not renamed over another, and a missing one is not renamed.
RollBackApp(l) ==
  /\ At(l, "rollBackApp")
  /\ IF rollback # None /\ app = None
     THEN app' = rollback /\ rollback' = None /\ To(l, "rollBackReceipt")
     ELSE Ends(l) /\ UNCHANGED <<app, rollback>>
  /\ UNCHANGED <<receipt, pending, marker, running, tokens, owed>>

RollBackReceipt(l) ==
  /\ At(l, "rollBackReceipt") /\ To(l, "rollBackMarker")
  /\ receipt' = launcher[l].pending.previous
  /\ UNCHANGED <<app, rollback, pending, marker, running, tokens, owed>>

RollBackMarker(l) ==
  /\ At(l, "rollBackMarker") /\ To(l, "rollBackPending")
  /\ marker' = None
  /\ UNCHANGED <<app, rollback, receipt, pending, running, tokens, owed>>

RollBackPending(l) ==
  /\ At(l, "rollBackPending") /\ Ends(l)
  /\ pending' = None
  /\ UNCHANGED <<app, rollback, receipt, marker, running, tokens, owed>>

-----------------------------------------------------------------------------
\* verifyApp: on macOS the version is looked at too, elsewhere it is not.
Verified(what, version, checksVersion) == what \in Versions /\ (checksVersion => what = version)

Inspect(l, checksVersion) ==
  /\ At(l, "inspect")
  /\ LET version == launcher[l].version
     IN  IF app # None /\ receipt = version /\ Verified(app, version, checksVersion) THEN To(l, "launch")
         ELSE IF app # None /\ (receipt = None \/ running # None) THEN Ends(l)
         ELSE launcher' = [launcher EXCEPT ![l].at = "download", ![l].old = receipt,
                                           ![l].exists = app # None]
  /\ UNCHANGED <<app, rollback, receipt, pending, marker, running, tokens, owed>>

Download(l) ==
  /\ At(l, "download") /\ To(l, "extract")
  /\ UNCHANGED <<app, rollback, receipt, pending, marker, running, tokens, owed>>

Extract(l) ==
  /\ At(l, "extract") /\ To(l, IF launcher[l].exists THEN "look" ELSE "activate")
  /\ UNCHANGED <<app, rollback, receipt, pending, marker, running, tokens, owed>>

Look(l) ==
  /\ At(l, "look") /\ To(l, IF rollback = None THEN "backUp" ELSE Catch(l))
  /\ UNCHANGED <<app, rollback, receipt, pending, marker, running, tokens, owed>>

BackUp(l) ==
  /\ At(l, "backUp")
  /\ IF app # None /\ rollback = None
     THEN /\ rollback' = app /\ app' = None
          /\ launcher' = [launcher EXCEPT ![l].at = "activate", ![l].backedUp = TRUE]
     ELSE To(l, Catch(l)) /\ UNCHANGED <<app, rollback>>
  /\ UNCHANGED <<receipt, pending, marker, running, tokens, owed>>

Activate(l) ==
  /\ At(l, "activate")
  /\ IF app = None
     THEN /\ app' = launcher[l].version
          /\ launcher' = [launcher EXCEPT ![l].at = "receipt", ![l].activated = TRUE]
     ELSE To(l, Catch(l)) /\ UNCHANGED app
  /\ UNCHANGED <<rollback, receipt, pending, marker, running, tokens, owed>>

WriteReceipt(l) ==
  /\ At(l, "receipt")
  /\ receipt' = launcher[l].version
  /\ IF launcher[l].backedUp
     THEN To(l, IF launcher[l].healthy THEN "pending" ELSE "forget") /\ UNCHANGED owed
     ELSE To(l, "launch") /\ Owe
  /\ UNCHANGED <<app, rollback, pending, marker, running, tokens>>

WritePending(l) ==
  /\ At(l, "pending") /\ tokens < MaxTokens
  /\ tokens' = tokens + 1
  /\ pending' = [target |-> launcher[l].version, previous |-> launcher[l].old,
                 token |-> tokens + 1, late |-> FALSE]
  /\ launcher' = [launcher EXCEPT ![l].at = "launch", ![l].pending = pending']
  /\ Owe
  /\ UNCHANGED <<app, rollback, receipt, marker, running>>

Forget(l) ==
  /\ At(l, "forget") /\ To(l, "launch")
  /\ rollback' = None /\ Owe
  /\ UNCHANGED <<app, receipt, pending, marker, running, tokens>>

\* launch, with the token for an update, which is not started without.
Launch(l) ==
  /\ At(l, "launch") /\ Ends(l)
  /\ LET Token == IF launcher[l].healthy THEN launcher[l].pending.token ELSE 0
     IN  running' = IF app \in Versions /\ running = None /\ (launcher[l].healthy => launcher[l].pending # None)
                    THEN [version |-> app, token |-> Token] ELSE running
  /\ UNCHANGED <<app, rollback, receipt, pending, marker, tokens, owed>>

-----------------------------------------------------------------------------
\* A download, a rename or a write fails.
Fails(l) ==
  /\ launcher[l].at \in {"download", "extract", "look", "backUp", "activate", "receipt", "pending"}
  /\ To(l, Catch(l))
  /\ UNCHANGED <<app, rollback, receipt, pending, marker, running, tokens, owed>>

RemoveActivated(l) ==
  /\ At(l, "catch") /\ To(l, "putBack")
  /\ app' = None
  /\ UNCHANGED <<rollback, receipt, pending, marker, running, tokens, owed>>

PutBack(l) ==
  /\ At(l, "putBack") /\ Ends(l)
  /\ IF launcher[l].backedUp /\ rollback # None /\ app = None
     THEN app' = rollback /\ rollback' = None
     ELSE UNCHANGED <<app, rollback>>
  /\ UNCHANGED <<receipt, pending, marker, running, tokens, owed>>

\* A launcher ends anywhere, in the middle of a removal too.
Dies(l) ==
  /\ ~At(l, "idle") /\ Ends(l)
  /\ app' \in IF app # None /\ launcher[l].at \in {"rollBack", "catch"} THEN {app, Broken} ELSE {app}
  /\ rollback' \in IF rollback # None /\ launcher[l].at \in {"confirm", "forget"}
                   THEN {rollback, Broken} ELSE {rollback}
  /\ UNCHANGED <<receipt, pending, marker, running, tokens, owed>>

\* writeLauncherHealthMarker.
WriteMarker ==
  /\ running # None /\ running.token # 0
  /\ marker' = [version |-> running.version, token |-> running.token]
  /\ owed' = IF \E l \in Launchers : launcher[l].at \in {"overdue", "rollBack", "rollBackApp"} THEN "forgone" ELSE owed
  /\ UNCHANGED <<app, rollback, receipt, pending, launcher, running, tokens>>

ApplicationEnds ==
  /\ running # None /\ running' = None
  /\ UNCHANGED <<app, rollback, receipt, pending, marker, launcher, tokens, owed>>

DeadlinePasses ==
  /\ pending # None /\ ~pending.late
  /\ pending' = [pending EXCEPT !.late = TRUE]
  /\ UNCHANGED <<app, rollback, receipt, marker, launcher, running, tokens, owed>>

Next ==
  \/ \E l \in Launchers :
       \/ \E version \in Versions : Install(l, version)
       \/ \E own, version \in Versions : Update(l, own, version)
       \/ Reconcile(l) \/ Confirm(l) \/ ConfirmMarker(l) \/ ConfirmPending(l)
       \/ Overdue(l) \/ RollBack(l) \/ RollBackApp(l) \/ RollBackReceipt(l)
       \/ RollBackMarker(l) \/ RollBackPending(l)
       \/ \E checksVersion \in BOOLEAN : Inspect(l, checksVersion)
       \/ Download(l) \/ Extract(l) \/ Look(l) \/ BackUp(l) \/ Activate(l) \/ WriteReceipt(l) \/ WritePending(l) \/ Forget(l)
       \/ Launch(l) \/ Fails(l) \/ RemoveActivated(l) \/ PutBack(l) \/ Dies(l)
  \/ WriteMarker \/ ApplicationEnds \/ DeadlinePasses

Spec == Init /\ [][Next]_vars

-----------------------------------------------------------------------------
\* Once an install has ended well a whole application is left at every moment, in its
\* place or kept for a rollback, wherever later installs, updates and rollbacks fail or
\* end; but for a healthy start that is reported in the instant it is found overdue.
AppSurvives == owed = "application" => app \in Versions \/ rollback \in Versions
=============================================================================
