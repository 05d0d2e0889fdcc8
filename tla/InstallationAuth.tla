--------------------------- MODULE InstallationAuth ---------------------------
(***************************************************************************)
(* InstallationAuthManager over the configuration file: enrollment,        *)
(* polling, refresh with rotation, signing, sign-out                       *)
(* (src/main/installation-auth.ts, configuration-store.ts, ipc.ts).        *)
(*                                                                         *)
(* All of it runs in one thread, but every operation awaits the file, the  *)
(* cipher or the network: a job is where such an operation is, and a step  *)
(* is what it does between two awaits.  Nothing serializes the updates of  *)
(* the file.  A job that has read the file for an update holds in out what *)
(* it is going to write.                                                   *)
(***************************************************************************)
EXTENDS ConfigurationStore, FiniteSets

CONSTANTS Polls,     \* poll loops that may be on their way at the same time
          Flights,   \* refreshes that may be on their way at the same time
          MaxGen,    \* bound: refresh tokens of an installation
          MaxBusy,   \* bound: operations at work when another one is begun
          DiskFails  \* whether the file may turn out not to be writable

\* "user": startEnrollment, cancelEnrollment or signOut;  "continue":
\* createPendingEnrollment;  "status": enrollmentStatus;  "request": authorize for
\* a running task, or diagnostics();  "touch": an update of the file that is not
\* about authentication, or save().
Asked == {"user", "continue", "status", "touch", "request"}
Jobs == Asked \cup Polls \cup Flights

ASSUME AuthAssumption ==
  /\ MaxGen \in Nat \ {0} /\ MaxBusy \in Nat /\ DiskFails \in BOOLEAN
  /\ Polls \cap Flights = {} /\ (Polls \cup Flights) \cap Asked = {}
  /\ None \notin Jobs

VARIABLES
  file,         \* the configuration on disk
  pc,           \* where each job is
  arg,          \* the enrollment or installation the job is about
  out,          \* what the job is going to write
  userOp,       \* which operation "user" is
  controller,   \* this.pollController: the poll loop it belongs to
  aborted,      \* poll loops whose signal is aborted
  prepared,     \* this.prepared
  access,       \* this.access while it is fresh: the installation it is for
  flight,       \* this.refreshFlight
  waiting,      \* the flight a job awaits
  compromised,  \* this.persistenceCompromised
  grant,        \* the server: state of each device authorization
  issued,       \* the server: newest refresh token of each installation
  late          \* enrollments whose expiresAt is past

job == <<pc, arg, out, userOp, waiting>>
memory == <<controller, aborted, prepared, access, flight, compromised>>
server == <<grant, issued, late>>
vars == <<file, job, memory, server>>

Init ==
  /\ file \in {Empty, Legacy(TRUE), Legacy(FALSE)}
  /\ pc = [j \in Jobs |-> "idle"]
  /\ arg = [j \in Jobs |-> None] /\ out = [j \in Jobs |-> None]
  /\ userOp = "none" /\ waiting = [j \in Jobs |-> None]
  /\ controller = None /\ aborted = {} /\ prepared = FALSE
  /\ access = None /\ flight = None /\ compromised = FALSE
  /\ grant = [e \in Enrollments |-> "none"]
  /\ issued = [e \in Enrollments |-> 0]
  /\ late = {}

-----------------------------------------------------------------------------
\* A poll loop between two requests is not counted.
Quiet(j) == pc[j] \in {"idle", "wait"}

MayBegin(j) ==
  pc[j] = "idle" /\ Cardinality({k \in Jobs : ~Quiet(k)}) < MaxBusy

Goto(j, to) == pc' = [pc EXCEPT ![j] = to]
About(j, x) == arg' = [arg EXCEPT ![j] = x]

\* The job ends; a poll loop gives pollController back if it is still its own.
Ended(j) ==
  /\ pc' = [pc EXCEPT ![j] = "idle"] /\ About(j, None)
  /\ controller' = IF controller = j THEN None ELSE controller
  /\ aborted' = aborted \ {j}

\* this.pollController?.abort()
AbortPoll == aborted' = aborted \cup ({controller} \ {None})

\* beginPolling: the loop before is aborted, a new one starts.
BeginPolling(j, e, at) ==
  \E p \in Polls :
    /\ at[p] = "idle"
    /\ pc' = [at EXCEPT ![p] = "wait"]
    /\ arg' = [arg EXCEPT ![p] = e, ![j] = None]
    /\ AbortPoll
    /\ controller' = p

\* The two halves of an update: the file is read, the file is replaced.
ReadFor(j, content) == out' = [out EXCEPT ![j] = content]
Replace(j) ==
  /\ file' = out[j]
  /\ out' = [out EXCEPT ![j] = None]
ReplaceFails(j) ==
  /\ DiskFails
  /\ out' = [out EXCEPT ![j] = None]
  /\ UNCHANGED file

\* clearMemory
ClearMemory == access' = None /\ flight' = None

-----------------------------------------------------------------------------
(* What the user asks for.  start, cancel and sign-out await continueFlight, *)
(* abort the poll loop and clear the pending enrollment first.               *)
UserBegins(op) ==
  /\ pc["user"] = "idle" /\ pc["continue"] = "idle"
  /\ LET busy == {j \in Jobs \ Flights : ~Quiet(j)}
     IN  Cardinality(busy) <= MaxBusy /\ \A j \in busy : pc[j] \in {"await", "request"}
  /\ userOp' = op
  /\ AbortPoll /\ controller' = None /\ prepared' = FALSE
  /\ About("user", file.pend) /\ Goto("user", "clear")
  /\ UNCHANGED <<file, out, waiting, access, flight, compromised, server>>

ContinueBegins ==
  /\ MayBegin("continue")
  /\ LET current == file.pend # None /\ file.pend \notin late
     IN  /\ current \/ prepared
         /\ IF current /\ controller = None
            THEN BeginPolling("continue", file.pend, pc)
            ELSE /\ IF current THEN UNCHANGED pc ELSE Goto("continue", "create")
                 /\ UNCHANGED <<arg, aborted, controller>>
         /\ prepared' = (prepared /\ ~current)
  /\ UNCHANGED <<file, out, userOp, waiting, access, flight, compromised, server>>

\* The device authorization is created, or the exchange fails.
Create ==
  /\ pc["continue"] = "create"
  /\ \/ \E e \in Enrollments :
          /\ grant[e] = "none"
          /\ grant' = [grant EXCEPT ![e] = "waiting"]
          /\ About("continue", e) /\ Goto("continue", "save")
     \/ Goto("continue", "clear") /\ UNCHANGED <<arg, grant>>
  /\ UNCHANGED <<file, out, userOp, waiting, memory, issued, late>>

StatusBegins ==
  /\ MayBegin("status") /\ file.pend # None
  /\ About("status", file.pend) /\ Goto("status", "look")
  /\ UNCHANGED <<file, out, userOp, waiting, memory, server>>

\* Mutant: an expired enrollment is reported and left where it is.
StatusOnlyLooks ==
  /\ pc["status"] = "look" /\ Goto("status", "idle")
  /\ IF arg["status"] \notin late /\ controller = None
     THEN FALSE
     ELSE UNCHANGED <<file, arg, out, userOp, waiting, memory, server>>

\* enrollmentStatus, with what it read before it awaited the cipher.
StatusLooks ==
  /\ pc["status"] = "look"
  /\ IF arg["status"] \notin late /\ controller = None
     THEN BeginPolling("status", arg["status"], [pc EXCEPT !["status"] = "idle"])
     ELSE /\ Goto("status", IF arg["status"] \in late THEN "clear" ELSE "idle")
          /\ UNCHANGED <<arg, aborted, controller>>
  /\ UNCHANGED <<file, out, userOp, waiting, prepared, access, flight, compromised,
                 server>>

-----------------------------------------------------------------------------
(* clearPendingEnrollment and cancelPendingAuthorization, in either order.   *)
AfterClear(j) ==
  IF j = "continue"
  THEN Ended(j)
  ELSE /\ Goto(j, "cancel") /\ UNCHANGED <<arg, controller>>
       /\ IF j = "status" THEN AbortPoll ELSE UNCHANGED aborted

Clear(j) ==
  /\ pc[j] \in {"clear", "expire"}
  /\ IF file.pend = None
     THEN AfterClear(j) /\ UNCHANGED out
     ELSE /\ ReadFor(j, ClearPending(file))
          /\ Goto(j, IF pc[j] = "clear" THEN "clearing" ELSE "expiring")
          /\ UNCHANGED <<arg, controller, aborted>>
  /\ prepared' = (prepared /\ j # "continue")
  /\ UNCHANGED <<file, userOp, waiting, access, flight, compromised, server>>

Cleared(j) ==
  /\ pc[j] \in {"clearing", "expiring"}
  /\ Replace(j) /\ AfterClear(j)
  /\ UNCHANGED <<userOp, waiting, prepared, access, flight, compromised, server>>

\* A file that cannot be written: caught by most, retried by a poll loop.
ClearFails(j) ==
  /\ pc[j] \in {"clearing", "expiring"} /\ ReplaceFails(j)
  /\ \/ j \in {"user", "continue"} /\ AfterClear(j)
     \/ /\ j \in Polls /\ pc[j] = "clearing"
        /\ Goto(j, "retry") /\ UNCHANGED <<arg, aborted, controller>>
     \/ /\ j \notin {"user", "continue"} /\ (j \in Polls => pc[j] = "expiring")
        /\ Ended(j)
  /\ UNCHANGED <<userOp, waiting, prepared, access, flight, compromised, server>>

\* The signed cancellation may be lost; the server forgets what is not redeemed.
Cancel(j) ==
  /\ pc[j] = "cancel"
  /\ \/ UNCHANGED grant
     \/ /\ arg[j] # None /\ grant[arg[j]] \in {"waiting", "approved"}
        /\ grant' = [grant EXCEPT ![arg[j]] = "closed"]
  /\ IF j = "continue" \/ (j = "user" /\ userOp = "signout")
     THEN /\ Goto(j, IF j = "continue" THEN "clear" ELSE "revoke")
          /\ UNCHANGED <<arg, prepared, controller, aborted>>
     ELSE /\ Ended(j)
          /\ prepared' = (prepared \/ (j = "user" /\ userOp = "start"))
  /\ userOp' = IF j = "user" THEN "none" ELSE userOp
  /\ UNCHANGED <<file, out, waiting, access, flight, compromised, issued, late>>

-----------------------------------------------------------------------------
(* savePendingEnrollment: by "continue" once, by a poll loop to schedule the *)
(* next request and, whatever has failed, to retry.                          *)
Save(j) ==
  /\ pc[j] \in {"save", "schedule", "retry"}
  /\ ReadFor(j, SavePending(file, arg[j]))
  /\ Goto(j, IF pc[j] = "save" THEN "saving"
             ELSE IF pc[j] = "schedule" THEN "scheduling" ELSE "retrying")
  /\ UNCHANGED <<file, arg, userOp, waiting, memory, server>>

Saved(j) ==
  /\ pc[j] \in {"saving", "scheduling", "retrying"} /\ Replace(j)
  /\ IF j = "continue"
     THEN BeginPolling(j, arg[j], [pc EXCEPT ![j] = "idle"]) /\ prepared' = FALSE
     ELSE Goto(j, "wait") /\ UNCHANGED <<arg, aborted, controller, prepared>>
  /\ UNCHANGED <<userOp, waiting, access, flight, compromised, server>>

SaveFails(j) ==
  /\ pc[j] \in {"saving", "scheduling", "retrying"} /\ ReplaceFails(j)
  /\ Goto(j, IF pc[j] = "saving" THEN "cancel"
             ELSE IF pc[j] = "scheduling" THEN "retry" ELSE "wait")
  /\ UNCHANGED <<arg, userOp, waiting, memory, server>>

\* The top of pollLoop, when its delay is over or its signal aborted.
PollWakes(p) ==
  /\ pc[p] = "wait"
  /\ IF p \in aborted
     THEN Ended(p)
     ELSE /\ Goto(p, IF arg[p] \in late THEN "expire" ELSE "request")
          /\ UNCHANGED <<arg, controller, aborted>>
  /\ UNCHANGED <<file, out, userOp, waiting, prepared, access, flight, compromised,
                 server>>

\* pollOnce: a request that is aborted or fails, though the server may have
\* redeemed the grant, throws into the retry.
PollAnswered(p) ==
  /\ pc[p] = "request"
  /\ LET e == arg[p]
         redeem == /\ grant[e] = "approved"
                   /\ grant' = [grant EXCEPT ![e] = "closed"]
                   /\ issued' = [issued EXCEPT ![e] = 1]
     IN  \/ Goto(p, "retry") /\ (redeem \/ UNCHANGED <<grant, issued>>)
         \/ p \notin aborted /\ redeem /\ Goto(p, "profile")
         \/ /\ p \notin aborted /\ grant[e] # "approved"
            /\ Goto(p, IF grant[e] = "waiting" THEN "schedule" ELSE "clear")
            /\ UNCHANGED <<grant, issued>>
  /\ UNCHANGED <<file, arg, out, userOp, waiting, memory, late>>

\* The signed profile request, which an aborted signal makes fail.
PollProfiled(p) ==
  /\ pc[p] = "profile"
  /\ \/ p \notin aborted /\ Goto(p, "complete")
     \/ Goto(p, "clear")
  /\ UNCHANGED <<file, arg, out, userOp, waiting, memory, server>>

Complete(p) ==
  /\ pc[p] = "complete"
  /\ ReadFor(p, CompleteEnrollment(file, [id |-> arg[p], gen |-> 1]))
  /\ Goto(p, "completing")
  /\ UNCHANGED <<file, arg, userOp, waiting, memory, server>>

Completed(p) ==
  /\ pc[p] = "completing" /\ Replace(p) /\ Ended(p)
  /\ access' = [id |-> arg[p], gen |-> 1] /\ compromised' = FALSE
  /\ UNCHANGED <<userOp, waiting, prepared, flight, server>>

CompleteFails(p) ==
  /\ pc[p] = "completing" /\ ReplaceFails(p) /\ Goto(p, "retry")
  /\ UNCHANGED <<arg, userOp, waiting, memory, server>>

-----------------------------------------------------------------------------
(* authorize and ensureAccess; signOut takes the same way.                   *)
RequestBegins ==
  /\ MayBegin("request") /\ ~compromised /\ file.inst # None
  /\ About("request", file.inst) /\ Goto("request", "access")
  /\ UNCHANGED <<file, out, userOp, waiting, memory, server>>

SignOutReads ==
  /\ pc["user"] = "revoke"
  /\ IF file.inst = None
     THEN Goto("user", "wipe") /\ ClearMemory /\ UNCHANGED arg
     ELSE Goto("user", "access") /\ About("user", file.inst) /\ UNCHANGED <<access, flight>>
  /\ UNCHANGED <<file, out, userOp, waiting, controller, aborted, prepared, compromised,
                 server>>

EnsureAccess(j) ==
  /\ pc[j] = "access"
  /\ \/ /\ access # None
        /\ Goto(j, "signed") /\ UNCHANGED <<arg, waiting, flight>>
     \/ /\ access = None /\ flight # None
        /\ Goto(j, "await") /\ waiting' = [waiting EXCEPT ![j] = flight]
        /\ UNCHANGED <<arg, flight>>
     \/ /\ access = None /\ flight = None
        /\ \E f \in Flights :
             /\ pc[f] = "idle"
             /\ pc' = [pc EXCEPT ![j] = "await", ![f] = "refresh"]
             /\ arg' = [arg EXCEPT ![f] = arg[j]]
             /\ waiting' = [waiting EXCEPT ![j] = f]
             /\ flight' = f
  /\ UNCHANGED <<file, out, userOp, controller, aborted, prepared, access, compromised,
                 server>>

\* The promise of a flight settles, and with it refreshFlight, whosever it is.
Settled(f, ok) ==
  LET waiters == {j \in Jobs : waiting[j] = f}
      after(j) == IF ok THEN "signed" ELSE IF j = "user" THEN "forget" ELSE "note"
  IN  /\ pc' = [j \in Jobs |-> IF j = f THEN "idle" ELSE
                                IF j \in waiters THEN after(j) ELSE pc[j]]
      /\ waiting' = [j \in Jobs |-> IF j \in waiters THEN None ELSE waiting[j]]
      /\ arg' = [j \in Jobs |-> IF pc'[j] = "idle" THEN None ELSE arg[j]]
      /\ flight' = None

\* The answer to a refresh that the server accepts arrives, or is lost with the
\* token in it; a request may also never have got there.
RefreshAccepted(f) ==
  LET spent == arg[f]
      next == [spent EXCEPT !.gen = @ + 1]
  IN  /\ pc[f] = "refresh" /\ spent.gen = issued[spent.id] /\ spent.gen < MaxGen
      /\ issued' = [issued EXCEPT ![spent.id] = @ + 1]
      /\ \/ Goto(f, "rotate") /\ About(f, next) /\ UNCHANGED <<waiting, flight>>
         \/ Settled(f, FALSE)
      /\ UNCHANGED <<file, out, userOp, controller, aborted, prepared, access,
                     compromised, grant, late>>

RefreshUnsent(f) ==
  /\ pc[f] = "refresh" /\ Settled(f, FALSE)
  /\ UNCHANGED <<file, out, userOp, controller, aborted, prepared, access, compromised,
                 server>>

\* Mutant: a refusal is taken for a failure.
RefusalUnmarked(f) ==
  /\ pc[f] = "refresh" /\ Settled(f, FALSE)
  /\ UNCHANGED <<file, out, userOp, controller, aborted, prepared, access, compromised,
                 server>>

\* An installation that is revoked or expired, or a token that was used before.
RefreshRefused(f) ==
  /\ pc[f] = "refresh"
  /\ Goto(f, "mark")
  /\ UNCHANGED <<file, arg, out, userOp, waiting, memory, server>>

\* rotateInstallation; when it cannot store, the installation is given up.
Compromise(f) ==
  /\ ClearMemory /\ compromised' = TRUE /\ Goto(f, "wipe")

RotateReads(f) ==
  /\ pc[f] = "rotate"
  /\ IF file.inst = None
     THEN Compromise(f) /\ UNCHANGED out
     ELSE /\ ReadFor(f, Rotate(file, arg[f])) /\ Goto(f, "rotating")
          /\ UNCHANGED <<access, flight, compromised>>
  /\ UNCHANGED <<file, arg, userOp, waiting, controller, aborted, prepared, server>>

Rotated(f) ==
  /\ pc[f] = "rotating" /\ Replace(f) /\ Settled(f, TRUE)
  /\ access' = arg[f]
  /\ UNCHANGED <<userOp, controller, aborted, prepared, compromised, server>>

RotateFails(f) ==
  /\ pc[f] = "rotating" /\ ReplaceFails(f) /\ Compromise(f)
  /\ UNCHANGED <<arg, userOp, waiting, controller, aborted, prepared, server>>

-----------------------------------------------------------------------------
(* What becomes of a signed request: a task's is no more to us; diagnostics() *)
(* goes on to updateModels or noteCatalogFailure, also when it was not sent,  *)
(* and to markReconnectRequired when the answer was 401.                      *)
Answered ==
  /\ pc["request"] = "signed"
  /\ \/ Goto("request", "idle") /\ About("request", None)
     \/ Goto("request", "note") /\ UNCHANGED arg
     \/ Goto("request", "note") /\ About("request", None)     \* 401
  /\ UNCHANGED <<file, out, userOp, waiting, memory, server>>

Note ==
  /\ pc["request"] = "note"
  /\ ReadFor("request", Rewrite(file)) /\ Goto("request", "noting")
  /\ UNCHANGED <<file, arg, userOp, waiting, memory, server>>

Noted ==
  /\ pc["request"] = "noting" /\ Replace("request")
  /\ Goto("request", IF arg["request"] = None THEN "mark" ELSE "idle")
  /\ About("request", None)
  /\ UNCHANGED <<userOp, waiting, memory, server>>

\* markReconnectRequired, after which the access token is forgotten.
AfterMark(j) ==
  /\ access' = None /\ flight' = None
  /\ IF j \in Flights
     THEN Settled(j, FALSE)
     ELSE Goto(j, "idle") /\ About(j, None) /\ UNCHANGED waiting

Mark(j) ==
  /\ pc[j] = "mark"
  /\ IF file.metadata # "none"
     THEN /\ ReadFor(j, MarkReconnect(file)) /\ Goto(j, "marking")
          /\ UNCHANGED <<arg, waiting, access, flight>>
     ELSE AfterMark(j) /\ UNCHANGED out
  /\ UNCHANGED <<file, userOp, controller, aborted, prepared, compromised, server>>

Marked(j) ==
  /\ pc[j] = "marking" /\ Replace(j) /\ AfterMark(j)
  /\ UNCHANGED <<userOp, controller, aborted, prepared, compromised, server>>

\* signOut: the server revokes the installation or is not reached, and what is
\* in memory is forgotten, also when there was no access to ask it with.
Revoke ==
  /\ pc["user"] \in {"signed", "forget"}
  /\ ClearMemory /\ Goto("user", "wipe")
  /\ UNCHANGED <<file, arg, out, userOp, waiting, controller, aborted, prepared,
                 compromised, server>>

\* signOutLocal, of a sign-out or of a flight that could not store.
Wipe(j) ==
  /\ pc[j] = "wipe" /\ ReadFor(j, SignOutLocal(file)) /\ Goto(j, "wiping")
  /\ UNCHANGED <<file, arg, userOp, waiting, memory, server>>

Wiped(j) ==
  /\ pc[j] = "wiping"
  /\ Replace(j) \/ ReplaceFails(j)
  /\ IF j \in Flights
     THEN Settled(j, FALSE) /\ UNCHANGED compromised
     ELSE /\ Goto(j, "idle") /\ About(j, None) /\ UNCHANGED <<waiting, flight>>
          /\ compromised' = (compromised /\ file' # out[j])
  /\ UNCHANGED <<userOp, controller, aborted, prepared, access, server>>

-----------------------------------------------------------------------------
(* Updates of the file that know nothing of authentication, and save().      *)
TouchBegins ==
  /\ MayBegin("touch") /\ Goto("touch", "touching")
  /\ \E c \in {Rewrite(file), SaveCustom(file)} : ReadFor("touch", c)
  /\ UNCHANGED <<file, arg, userOp, waiting, memory, server>>

Touched ==
  /\ pc["touch"] = "touching" /\ Replace("touch") /\ Goto("touch", "idle")
  /\ UNCHANGED <<arg, userOp, waiting, memory, server>>

\* Time, the server and its user.
EnrollmentExpires(e) ==
  /\ grant[e] # "none" /\ e \notin late /\ late' = late \cup {e}
  /\ UNCHANGED <<file, job, memory, grant, issued>>

PreparedExpires ==
  /\ prepared /\ prepared' = FALSE
  /\ UNCHANGED <<file, job, controller, aborted, access, flight, compromised, server>>

AccessAges ==
  /\ access # None /\ access' = None
  /\ UNCHANGED <<file, job, controller, aborted, prepared, flight, compromised, server>>

GrantDecided(e) ==
  /\ grant[e] = "waiting" /\ e \notin late
  /\ \E answer \in {"approved", "closed"} : grant' = [grant EXCEPT ![e] = answer]
  /\ UNCHANGED <<file, job, memory, issued, late>>

\* The application ends anywhere and is started again: only the file is left.
Restart ==
  /\ (\E j \in Jobs : pc[j] # "idle") \/ access # None \/ compromised \/ prepared
  /\ pc' = [j \in Jobs |-> "idle"]
  /\ arg' = [j \in Jobs |-> None] /\ out' = [j \in Jobs |-> None]
  /\ userOp' = "none" /\ waiting' = [j \in Jobs |-> None]
  /\ controller' = None /\ aborted' = {} /\ prepared' = FALSE
  /\ access' = None /\ flight' = None /\ compromised' = FALSE
  /\ UNCHANGED <<file, server>>

-----------------------------------------------------------------------------
Poll(p) ==
  \/ PollWakes(p) \/ PollAnswered(p) \/ PollProfiled(p)
  \/ Complete(p) \/ Completed(p) \/ CompleteFails(p)

Refresh(f) ==
  \/ RefreshAccepted(f) \/ RefreshUnsent(f) \/ RefreshRefused(f)
  \/ RotateReads(f) \/ Rotated(f) \/ RotateFails(f)

\* What an operation does next.
Goes(j) ==
  \/ Clear(j) \/ Cleared(j) \/ ClearFails(j) \/ Cancel(j)
  \/ Save(j) \/ Saved(j) \/ SaveFails(j)
  \/ EnsureAccess(j)
  \/ Mark(j) \/ Marked(j) \/ Wipe(j) \/ Wiped(j)
  \/ j \in Polls /\ Poll(j)
  \/ j \in Flights /\ Refresh(j)
  \/ j = "continue" /\ Create
  \/ j = "status" /\ StatusLooks
  \/ j = "user" /\ (SignOutReads \/ Revoke)
  \/ j = "request" /\ (Answered \/ Note \/ Noted)
  \/ j = "touch" /\ Touched

Begins ==
  \/ \E op \in {"start", "cancel", "signout"} : UserBegins(op)
  \/ ContinueBegins \/ StatusBegins \/ RequestBegins \/ TouchBegins

Environment ==
  \/ \E e \in Enrollments :
       EnrollmentExpires(e) \/ GrantDecided(e)
  \/ PreparedExpires \/ AccessAges \/ Restart

Next == (\E j \in Jobs : Goes(j)) \/ Begins \/ Environment

Spec == Init /\ [][Next]_vars

\* What is awaited ends; time passes; the renderer asks for the status and a task
\* for a request again and again, and is let in once there is room; the refusal of a
\* used token gets through in the end; and from some time on the application runs on and the disk
\* can be written.
FairSpec ==
  /\ Spec
  /\ \A j \in Jobs : WF_vars(Goes(j))
  /\ \A e \in Enrollments : WF_vars(EnrollmentExpires(e))
  /\ WF_vars(AccessAges)
  /\ SF_vars(StatusBegins) /\ SF_vars(RequestBegins)
  /\ \A f \in Flights : SF_vars(RefreshRefused(f) /\ arg[f].gen # issued[arg[f].id])
  /\ <>[][~Restart /\ \A j \in Jobs : ~ClearFails(j)]_vars

-----------------------------------------------------------------------------
TypeOK ==
  /\ file \in Configurations
  /\ arg \in [Jobs -> Enrollments \cup Installations \cup {None}]
  /\ out \in [Jobs -> Configurations \cup {None}]
  /\ waiting \in [Jobs -> Flights \cup {None}]
  /\ userOp \in {"none", "start", "cancel", "signout"}
  /\ controller \in Polls \cup {None} /\ aborted \subseteq Polls
  /\ prepared \in BOOLEAN /\ compromised \in BOOLEAN
  /\ access \in Installations \cup {None} /\ flight \in Flights \cup {None}
  /\ grant \in [Enrollments ->
       {"none", "waiting", "approved", "closed"}]
  /\ issued \in [Enrollments -> 0 .. MaxGen]
  /\ late \subseteq Enrollments

\* Whatever updates overlap and whichever of them is lost, the file never mixes
\* credentials of two kinds: mode, token, installation, pending enrollment and
\* metadata always fit together, on disk and in what is about to be written.
FileCoherent ==
  /\ Coherent(file)
  /\ \A j \in Jobs : out[j] # None => Coherent(out[j])

\* An access token is not used before the refresh token that came with it is on
\* disk: after a crash the installation can still be refreshed.
AccessIsStored ==
  access # None =>
    /\ \A f \in Flights : pc[f] \in {"rotate", "rotating"} => arg[f] # access
    /\ \A p \in Polls : pc[p] \in {"profile", "complete", "completing"}
                            => arg[p] # access.id

\* Types hold, the file tells one story, and the token in use is that of the file.
StoreAndAccessAgree == TypeOK /\ FileCoherent /\ AccessIsStored

\* A pending enrollment is settled in the end, though its poll loop may be
\* aborted, its expiry raced by a save, or the application started again.
PendingSettles == \A e \in Enrollments : file.pend = e ~> file.pend # e

\* A refresh token that the server has replaced by one that never reached the
\* disk does not stay there unnoticed: the user is asked to reconnect, or the
\* installation is replaced or given up.
SpentTokenIsNoticed ==
  \A e \in Enrollments :
    (file.inst # None /\ file.inst.id = e /\ file.inst.gen < issued[e])
      ~> (file.inst = None \/ file.inst.gen = issued[file.inst.id]
            \/ file.metadata = "reconnect" \/ compromised)

\* When cancelEnrollment returns, no pending key is left in the file.
CancelRemovesPending ==
  [][pc["user"] = "cancel" /\ userOp = "cancel" /\ pc'["user"] = "idle"
       => file.pend = None]_vars
=============================================================================
