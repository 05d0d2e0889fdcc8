-------------------------- MODULE ConfigurationStore --------------------------
(***************************************************************************)
(* The encrypted configuration file and what each update of it writes      *)
(* (src/main/configuration-store.ts).  An update reads the file, awaits    *)
(* the cipher and replaces the whole file; here is what it writes as a     *)
(* function of what it has read.  No file is the empty configuration.      *)
(*                                                                         *)
(* An installation is [id, gen]: gen counts the refresh tokens the server  *)
(* has issued for it.  A pending enrollment is its device authorization.   *)
(***************************************************************************)
EXTENDS Naturals

CONSTANTS Enrollments,   \* device authorizations, and installations made of them
          None

Installations == [id : Enrollments, gen : Nat]

Modes == {"unconfigured", "installation", "custom_bearer", "legacy_hosted"}

Configurations ==
  [mode     : Modes,
   token    : BOOLEAN,
   inst     : Installations \cup {None},
   pend     : Enrollments \cup {None},
   metadata : {"none", "ok", "reconnect"}]

ASSUME EnrollmentsAssumption ==
  None \notin Enrollments \cup Installations \cup Configurations

Empty ==
  [mode |-> "unconfigured", token |-> FALSE, inst |-> None, pend |-> None,
   metadata |-> "none"]

\* What migrateLegacy makes of a file of version 1 to 3 with a token.
Legacy(official) ==
  [Empty EXCEPT !.mode = IF official THEN "legacy_hosted" ELSE "custom_bearer",
                !.token = TRUE]

-----------------------------------------------------------------------------
SavePending(c, e) ==
  [c EXCEPT !.mode = IF c.inst # None THEN c.mode ELSE "installation",
            !.token = FALSE,
            !.pend = e]

\* Mutant: the mode is left to what the pending enrollment made it.
ClearPendingOnly(c) == [c EXCEPT !.pend = None]

\* clearPendingEnrollment writes only when there is one to clear.
ClearPending(c) ==
  [c EXCEPT !.mode = IF c.inst # None THEN "installation" ELSE "unconfigured",
            !.pend = None]

CompleteEnrollment(c, inst) ==
  [mode |-> "installation", token |-> FALSE, inst |-> inst, pend |-> None,
   metadata |-> "ok"]

Rotate(c, inst) == [c EXCEPT !.inst = inst, !.metadata = "ok"]

MarkReconnect(c) ==
  IF c.metadata = "none" THEN c ELSE [c EXCEPT !.metadata = "reconnect"]

SignOutLocal(c) ==
  [c EXCEPT !.mode = "unconfigured", !.token = FALSE, !.inst = None,
            !.pend = None, !.metadata = "none"]

\* save(): a router of the user's own, with a bearer token.
SaveCustom(c) == [Empty EXCEPT !.mode = "custom_bearer", !.token = TRUE]

\* What updatePreferences, updateModels, noteCatalogFailure and the renewed
\* encryption of decryptSecret write: whatever they have read, for the rest.
Rewrite(c) == c

-----------------------------------------------------------------------------
\* getRuntimeConfiguration: what a task can be started with.
Startable(c) ==
  \/ c.mode = "installation" /\ c.inst # None /\ c.metadata # "reconnect"
  \/ c.mode = "custom_bearer" /\ c.token

\* authenticationDiagnostics: what the user is told.
State(c) ==
  CASE c.pend # None /\ ~(c.mode = "installation" /\ c.inst # None) -> "pending"
    [] c.mode = "installation" /\ c.inst # None ->
         IF c.metadata = "reconnect" THEN "reconnect_required" ELSE "connected"
    [] c.mode = "legacy_hosted" -> "reconnect_required"
    [] OTHER -> "none"

\* The parts of a configuration agree: a credential of one kind only, the mode
\* that goes with it, and metadata exactly for an installation; and a task can be
\* started with it only if the user is not told to do something first.
Coherent(c) ==
  /\ c.token <=> c.mode \in {"custom_bearer", "legacy_hosted"}
  /\ c.mode = "installation" <=> (c.inst # None \/ c.pend # None)
  /\ c.metadata = "none" <=> c.inst = None
  /\ Startable(c) => State(c) \in {"connected", "none"}
=============================================================================
