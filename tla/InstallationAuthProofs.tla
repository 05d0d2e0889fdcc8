------------------------ MODULE InstallationAuthProofs ------------------------
(***************************************************************************)
(* StoreAndAccessAgree holds for any number of enrollments, poll loops and *)
(* refreshes, whatever updates of the file overlap, wherever a write fails *)
(* and wherever the application ends.                                      *)
(*                                                                         *)
(* The argument is about the tokens the server has issued.  A token is     *)
(* known when the server has issued it and no poll loop is still on its    *)
(* way to the file with the grant of that installation.  Whatever is read, *)
(* held or about to be written is known; what is on its way is held by one *)
(* poll loop or one refresh only; and a grant is redeemed once.            *)
(***************************************************************************)
EXTENDS InstallationAuth, TLAPS

\* Where a poll loop has redeemed its grant and not stored the installation, where
\* a refresh holds a token it has not stored, where a job is about to write, save
\* its enrollment, or use the installation it has read.
Redeemed == {"profile", "complete", "completing"}
Rotating == {"rotate", "rotating"}
Writing == {"clearing", "expiring", "saving", "scheduling", "retrying", "completing",
            "rotating", "noting", "marking", "wiping", "touching"}
Saving == {"look", "save", "saving", "schedule", "scheduling", "retry", "retrying"}
Using == {"access", "refresh"}

KnownTokens ==
  {i \in Installations :
     /\ i.gen \in 1 .. issued[i.id]
     /\ \A p \in Polls : pc[p] \in Redeemed => arg[p] # i.id}

\* What each job holds, where it is.
JobOK(j) ==
  /\ pc[j] # "idle" /\ j \in Polls => arg[j] \in Enrollments
  /\ pc[j] \in Saving => arg[j] \in Enrollments
  /\ pc[j] \in Using \cup Rotating => arg[j] \in KnownTokens
  /\ pc[j] = "access" => j \in {"user", "request"}
  /\ pc[j] \in Writing => out[j] # None
  /\ out[j] # None =>
       /\ Coherent(out[j])
       /\ \/ out[j].inst \in KnownTokens \cup {None}
          \/ pc[j] = "completing" /\ out[j].inst = [id |-> arg[j], gen |-> 1]
  /\ waiting[j] # None => pc[j] = "await" /\ j \in {"user", "request"}
  /\ pc[j] \in Redeemed => j \in Polls /\ issued[arg[j]] >= 1
  /\ pc[j] \in Rotating => j \in Flights /\ arg[j].gen >= 2

Stored ==
  /\ Coherent(file)
  /\ file.inst \in KnownTokens \cup {None}
  /\ access \in KnownTokens \cup {None}

\* A grant that can still be redeemed has not been.
Grants == \A e \in Enrollments : grant[e] # "closed" => issued[e] = 0

\* No two poll loops hold one grant, no two refreshes one token, and none the
\* token in use.
Single ==
  /\ \A p, q \in Polls :
       pc[p] \in Redeemed /\ pc[q] \in Redeemed /\ arg[p] = arg[q] => p = q
  /\ \A f, g \in Flights :
       pc[f] \in Rotating /\ pc[g] \in Rotating /\ arg[f] = arg[g] => f = g
  /\ \A f \in Flights : pc[f] \in Rotating => arg[f] # access

AuthInv ==
  /\ TypeOK
  /\ pc = [j \in Jobs |-> pc[j]]
  /\ \A j \in Jobs : JobOK(j)
  /\ Stored /\ Grants /\ Single

-----------------------------------------------------------------------------
(* The updates of the file.  Each keeps a configuration coherent.            *)

LEMMA StartableIsTold ==
  ASSUME NEW c \in Configurations,
         c.token <=> c.mode \in {"custom_bearer", "legacy_hosted"},
         c.mode = "installation" <=> (c.inst # None \/ c.pend # None),
         c.metadata = "none" <=> c.inst = None
  PROVE  Coherent(c)
<1> SUFFICES ASSUME Startable(c)
             PROVE  State(c) \in {"connected", "none"}
  BY Zenon DEF Coherent
<1>1. CASE c.mode = "installation" /\ c.inst # None /\ c.metadata # "reconnect"
  BY <1>1, Zenon DEF State
<1>2. CASE c.mode = "custom_bearer" /\ c.token
  BY <1>2, Zenon DEF State
<1> QED BY <1>1, <1>2 DEF Startable

LEMMA UpdatesCoherent ==
  ASSUME NEW c \in Configurations, Coherent(c)
  PROVE  /\ \A e \in Enrollments :
              /\ SavePending(c, e) \in Configurations
              /\ Coherent(SavePending(c, e))
              /\ SavePending(c, e).inst = c.inst
         /\ c.pend # None =>
              /\ ClearPending(c) \in Configurations
              /\ Coherent(ClearPending(c))
              /\ ClearPending(c).inst = c.inst
         /\ MarkReconnect(c) \in Configurations
         /\ Coherent(MarkReconnect(c))
         /\ MarkReconnect(c).inst = c.inst
         /\ SignOutLocal(c) \in Configurations
         /\ Coherent(SignOutLocal(c))
         /\ SignOutLocal(c).inst = None
         /\ SaveCustom(c) \in Configurations
         /\ Coherent(SaveCustom(c))
         /\ SaveCustom(c).inst = None
         /\ \A i \in Installations :
              /\ CompleteEnrollment(c, i) \in Configurations
              /\ Coherent(CompleteEnrollment(c, i))
              /\ CompleteEnrollment(c, i).inst = i
              /\ c.inst # None =>
                   /\ Rotate(c, i) \in Configurations
                   /\ Coherent(Rotate(c, i))
                   /\ Rotate(c, i).inst = i
<1>c. /\ c.token <=> c.mode \in {"custom_bearer", "legacy_hosted"}
      /\ c.mode = "installation" <=> (c.inst # None \/ c.pend # None)
      /\ c.metadata = "none" <=> c.inst = None
  BY DEF Coherent
<1>n. /\ \A e \in Enrollments : e # None
      /\ \A i \in Installations : i # None
  BY EnrollmentsAssumption
<1>1. ASSUME NEW e \in Enrollments
      PROVE  /\ SavePending(c, e) \in Configurations
             /\ Coherent(SavePending(c, e))
             /\ SavePending(c, e).inst = c.inst
  <2>1. SavePending(c, e) \in Configurations /\ SavePending(c, e).inst = c.inst
    BY DEF SavePending, Configurations, Modes
  <2>2. Coherent(SavePending(c, e))
    BY <1>c, <1>n, <2>1, StartableIsTold DEF SavePending, Configurations, Modes
  <2> QED BY <2>1, <2>2
<1>2. ASSUME c.pend # None
      PROVE  /\ ClearPending(c) \in Configurations
             /\ Coherent(ClearPending(c))
             /\ ClearPending(c).inst = c.inst
  <2>1. ClearPending(c) \in Configurations /\ ClearPending(c).inst = c.inst
    BY DEF ClearPending, Configurations, Modes
  <2>2. Coherent(ClearPending(c))
    BY <1>c, <1>n, <1>2, <2>1, StartableIsTold DEF ClearPending, Configurations, Modes
  <2> QED BY <2>1, <2>2
<1>3. /\ MarkReconnect(c) \in Configurations
      /\ Coherent(MarkReconnect(c))
      /\ MarkReconnect(c).inst = c.inst
  <2>1. MarkReconnect(c) \in Configurations /\ MarkReconnect(c).inst = c.inst
    BY DEF MarkReconnect, Configurations, Modes
  <2>2. Coherent(MarkReconnect(c))
    BY <1>c, <1>n, <2>1, StartableIsTold DEF MarkReconnect, Configurations, Modes
  <2> QED BY <2>1, <2>2
<1>4. /\ SignOutLocal(c) \in Configurations
      /\ Coherent(SignOutLocal(c))
      /\ SignOutLocal(c).inst = None
  <2>1. SignOutLocal(c) \in Configurations /\ SignOutLocal(c).inst = None
    BY DEF SignOutLocal, Configurations, Modes
  <2>2. Coherent(SignOutLocal(c))
    BY <1>c, <1>n, <2>1, StartableIsTold DEF SignOutLocal, Configurations, Modes
  <2> QED BY <2>1, <2>2
<1>5. /\ SaveCustom(c) \in Configurations
      /\ Coherent(SaveCustom(c))
      /\ SaveCustom(c).inst = None
  <2>1. SaveCustom(c) \in Configurations /\ SaveCustom(c).inst = None
    BY DEF SaveCustom, Empty, Configurations, Modes
  <2>2. Coherent(SaveCustom(c))
    BY <1>c, <1>n, <2>1, StartableIsTold DEF SaveCustom, Empty, Configurations, Modes
  <2> QED BY <2>1, <2>2
<1>6. ASSUME NEW i \in Installations
      PROVE  /\ CompleteEnrollment(c, i) \in Configurations
             /\ Coherent(CompleteEnrollment(c, i))
             /\ CompleteEnrollment(c, i).inst = i
  <2>1. CompleteEnrollment(c, i) \in Configurations /\ CompleteEnrollment(c, i).inst = i
    BY DEF CompleteEnrollment, Configurations, Modes
  <2>2. Coherent(CompleteEnrollment(c, i))
    BY <1>c, <1>n, <2>1, StartableIsTold DEF CompleteEnrollment, Configurations, Modes
  <2> QED BY <2>1, <2>2
<1>7. ASSUME NEW i \in Installations, c.inst # None
      PROVE  /\ Rotate(c, i) \in Configurations
             /\ Coherent(Rotate(c, i))
             /\ Rotate(c, i).inst = i
  <2>1. Rotate(c, i) \in Configurations /\ Rotate(c, i).inst = i
    BY DEF Rotate, Configurations, Modes
  <2>2. Coherent(Rotate(c, i))
    BY <1>c, <1>n, <1>7, <2>1, StartableIsTold DEF Rotate, Configurations, Modes
  <2> QED BY <2>1, <2>2
<1> QED BY <1>1, <1>2, <1>3, <1>4, <1>5, <1>6, <1>7

-----------------------------------------------------------------------------
(* A step leaves a job as it is or moves it, into what it may hold there; it *)
(* does not redeem a grant or receive a token, which are steps of their own. *)

Kept(k) ==
  pc'[k] = pc[k] /\ arg'[k] = arg[k] /\ out'[k] = out[k] /\ waiting'[k] = waiting[k]

Moves(k) ==
  /\ pc'[k] \in Redeemed => pc[k] \in Redeemed /\ arg'[k] = arg[k]
  /\ pc'[k] \in Rotating => pc[k] \in Rotating /\ arg'[k] = arg[k]
  /\ pc'[k] # "idle" /\ k \in Polls => arg'[k] \in Enrollments
  /\ pc'[k] \in Saving => arg'[k] \in Enrollments
  /\ pc'[k] \in Using => arg'[k] \in KnownTokens
  /\ pc'[k] = "access" => k \in {"user", "request"}
  /\ pc'[k] \in Writing => out'[k] # None
  /\ out'[k] # None =>
       /\ Coherent(out'[k])
       /\ \/ out'[k].inst \in KnownTokens \cup {None}
          \/ pc'[k] = "completing" /\ out'[k].inst = [id |-> arg'[k], gen |-> 1]
  /\ waiting'[k] # None => pc'[k] = "await" /\ k \in {"user", "request"}

LEMMA TokensStayKnown ==
  ASSUME TypeOK, TypeOK', \A e \in Enrollments : issued[e] <= issued'[e],
         \A p \in Polls : pc'[p] \in Redeemed => pc[p] \in Redeemed /\ arg'[p] = arg[p]
  PROVE  KnownTokens \subseteq KnownTokens'
<1> SUFFICES ASSUME NEW i \in KnownTokens
             PROVE  i \in KnownTokens'
  OBVIOUS
<1>1. i \in Installations /\ i.id \in Enrollments /\ i.gen \in Nat
  BY DEF KnownTokens, Installations
<1>2. issued[i.id] \in Nat /\ issued'[i.id] \in Nat /\ issued[i.id] <= issued'[i.id]
  BY <1>1, AuthAssumption DEF TypeOK
<1>3. i.gen \in 1 .. issued'[i.id]
  BY <1>1, <1>2 DEF KnownTokens
<1> QED BY <1>1, <1>3 DEF KnownTokens

LEMMA JobsStayOK ==
  ASSUME AuthInv, TypeOK', \A e \in Enrollments : issued[e] <= issued'[e],
         KnownTokens \subseteq KnownTokens',
         NEW k \in Jobs, Kept(k) \/ Moves(k)
  PROVE  JobOK(k)'
<1>k. JobOK(k)
  BY DEF AuthInv
<1>p. Polls \subseteq Jobs /\ Flights \subseteq Jobs
  BY DEF Jobs
<1>t. /\ issued \in [Enrollments -> 0 .. MaxGen] /\ issued' \in [Enrollments -> 0 .. MaxGen]
      /\ MaxGen \in Nat
  BY AuthAssumption DEF AuthInv, TypeOK
<1>g. \A e \in Enrollments : issued[e] >= 1 => issued'[e] >= 1
  BY <1>t
<1>1. CASE Kept(k)
  <2>1. pc'[k] \in Redeemed => k \in Polls /\ issued'[arg'[k]] >= 1
    <3> SUFFICES ASSUME pc[k] \in Redeemed
                 PROVE  k \in Polls /\ issued'[arg[k]] >= 1
      BY <1>1 DEF Kept
    <3>1. k \in Polls /\ issued[arg[k]] >= 1 /\ arg[k] \in Enrollments
      BY <1>k DEF JobOK, Redeemed
    <3> QED BY <3>1, <1>g
  <2> QED BY <1>1, <1>k, <2>1 DEF Kept, JobOK
<1>2. CASE Moves(k)
  <2>1. pc'[k] \in Redeemed => k \in Polls /\ issued'[arg'[k]] >= 1
    <3> SUFFICES ASSUME pc'[k] \in Redeemed
                 PROVE  k \in Polls /\ issued'[arg'[k]] >= 1
      OBVIOUS
    <3>1. pc[k] \in Redeemed /\ arg'[k] = arg[k]
      BY <1>2 DEF Moves
    <3>2. k \in Polls /\ issued[arg[k]] >= 1 /\ arg[k] \in Enrollments
      BY <1>k, <3>1 DEF JobOK, Redeemed
    <3> QED BY <3>1, <3>2, <1>g
  <2>2. pc'[k] \in Rotating =>
          k \in Flights /\ arg'[k].gen >= 2 /\ arg'[k] \in KnownTokens
    BY <1>2, <1>k DEF Moves, JobOK
  <2>3. pc'[k] \in Using \cup Rotating => arg'[k] \in KnownTokens'
    BY <1>2, <2>2 DEF Moves
  <2> QED BY <1>2, <2>1, <2>2, <2>3 DEF Moves, JobOK
<1> QED BY <1>1, <1>2

QuietStep ==
  /\ TypeOK' /\ pc' = [j \in Jobs |-> pc'[j]]
  /\ \A k \in Jobs : Kept(k) \/ Moves(k)
  /\ issued' = issued
  /\ \A e \in Enrollments : grant'[e] # "closed" => grant[e] # "closed"
  /\ access' \in {access, None}
  /\ \/ file' = file
     \/ \E j \in Jobs : pc[j] # "completing" /\ out[j] # None /\ file' = out[j]

LEMMA QuietStepKeepsInv ==
  ASSUME AuthInv, QuietStep
  PROVE  AuthInv'
<1>p. Polls \subseteq Jobs /\ Flights \subseteq Jobs
  BY DEF Jobs
<1>r. \A k \in Jobs :
        /\ pc'[k] \in Redeemed => pc[k] \in Redeemed /\ arg'[k] = arg[k]
        /\ pc'[k] \in Rotating => pc[k] \in Rotating /\ arg'[k] = arg[k]
  BY DEF QuietStep, Kept, Moves
<1>g. \A e \in Enrollments : issued[e] <= issued'[e]
  BY AuthAssumption DEF AuthInv, TypeOK, QuietStep
<1>1. KnownTokens \subseteq KnownTokens'
  BY <1>p, <1>r, <1>g, TokensStayKnown DEF AuthInv, QuietStep
<1>2. \A k \in Jobs : JobOK(k)'
  BY <1>1, <1>g, JobsStayOK DEF QuietStep
<1>3. Stored'
  <2>1. Coherent(file') /\ file'.inst \in KnownTokens \cup {None}
    <3>1. CASE file' = file
      BY <3>1 DEF AuthInv, Stored
    <3>2. ASSUME NEW j \in Jobs, pc[j] # "completing", out[j] # None, file' = out[j]
          PROVE  Coherent(file') /\ file'.inst \in KnownTokens \cup {None}
      <4>1. JobOK(j)
        BY DEF AuthInv
      <4> QED BY <3>2, <4>1 DEF JobOK
    <3> QED BY <3>1, <3>2 DEF QuietStep
  <2> QED BY <1>1, <2>1 DEF AuthInv, QuietStep, Stored
<1>4. Grants'
  BY DEF AuthInv, QuietStep, Grants
<1>5. Single'
  <2>1. \A f \in Flights : pc'[f] \in Rotating => arg'[f] # access'
    <3> SUFFICES ASSUME NEW f \in Flights, pc'[f] \in Rotating
                 PROVE  arg'[f] # access'
      OBVIOUS
    <3>1. arg'[f] = arg[f] /\ arg[f] # access /\ arg[f] \in KnownTokens
      BY <1>p, <1>r DEF AuthInv, Single, JobOK
    <3>2. arg[f] # None
      BY <3>1, EnrollmentsAssumption DEF KnownTokens
    <3> QED BY <3>1, <3>2 DEF QuietStep
  <2>2. \A p, q \in Polls :
          pc'[p] \in Redeemed /\ pc'[q] \in Redeemed /\ arg'[p] = arg'[q] => p = q
    BY <1>p, <1>r DEF AuthInv, Single
  <2>3. \A f, g \in Flights :
          pc'[f] \in Rotating /\ pc'[g] \in Rotating /\ arg'[f] = arg'[g] => f = g
    BY <1>p, <1>r DEF AuthInv, Single
  <2> QED BY <2>1, <2>2, <2>3 DEF Single
<1> QED BY <1>2, <1>3, <1>4, <1>5 DEF AuthInv, QuietStep

\* What the invariant says of the file, of one job, and of the sets of jobs.
LEMMA AuthFacts ==
  ASSUME AuthInv
  PROVE  /\ TypeOK /\ pc = [k \in Jobs |-> pc[k]]
         /\ file \in Configurations /\ Coherent(file)
         /\ file.inst \in KnownTokens \cup {None}
         /\ file.pend \in Enrollments \cup {None}
         /\ \A k \in Jobs : JobOK(k)
         /\ Polls \subseteq Jobs /\ Flights \subseteq Jobs
         /\ {"user", "continue", "status", "touch", "request"} \subseteq Jobs
         /\ \A k \in Polls \cup Flights :
              k \notin {"user", "continue", "status", "touch", "request"}
         /\ KnownTokens \subseteq Installations /\ None \notin KnownTokens
         /\ \A c \in Configurations : c # None
<1>1. Polls \subseteq Jobs /\ Flights \subseteq Jobs /\ Asked \subseteq Jobs
  BY DEF Jobs
<1>2. \A k \in Polls \cup Flights : k \notin Asked
  BY AuthAssumption
<1>3. KnownTokens \subseteq Installations /\ None \notin KnownTokens
  BY EnrollmentsAssumption DEF KnownTokens
<1>4. file.pend \in Enrollments \cup {None}
  BY DEF AuthInv, TypeOK, Configurations
<1> QED BY <1>1, <1>2, <1>3, <1>4, EnrollmentsAssumption DEF AuthInv, Stored, TypeOK, Asked

-----------------------------------------------------------------------------
(* The quiet steps, one lemma for each: what the step leaves is of its type, *)
(* and the jobs it moves hold what they may.                                 *)

LEMMA ClearQuiet ==
  ASSUME AuthInv, NEW j \in Jobs, Clear(j)
  PROVE  QuietStep
<1>f. JobOK(j) /\ pc[j] \in {"clear", "expire"} /\ out[j] \in Configurations \cup {None}
  BY AuthFacts DEF Clear, TypeOK
<1>1. CASE file.pend = None
  <2>1. TypeOK'
    BY <1>f, <1>1, AuthFacts DEF Clear, AfterClear, Ended, AbortPoll, Goto, About, server, TypeOK
  <2>2. /\ pc' = [k \in Jobs |-> pc'[k]]
        /\ pc'[j] \in {"idle", "cancel"}
        /\ out' = out /\ waiting' = waiting
        /\ arg'[j] \in {arg[j], None} /\ (pc'[j] # "idle" => arg'[j] = arg[j])
        /\ \A k \in Jobs \ {j} : pc'[k] = pc[k] /\ arg'[k] = arg[k]
    BY <1>f, <1>1, AuthFacts DEF Clear, AfterClear, Ended, Goto, About, TypeOK
  <2>3. Moves(j)
    BY <1>f, <2>2 DEF Moves, JobOK, Redeemed, Rotating, Saving, Using, Writing
  <2> QED BY <1>f, <1>1, <2>1, <2>2, <2>3 DEF Clear, server, QuietStep, Kept
<1>2. CASE file.pend # None
  <2>1. /\ ClearPending(file) \in Configurations /\ Coherent(ClearPending(file))
        /\ ClearPending(file).inst = file.inst
    BY <1>2, AuthFacts, UpdatesCoherent
  <2>2. TypeOK'
    BY <1>f, <1>2, <2>1, AuthFacts DEF Clear, ReadFor, Goto, server, TypeOK
  <2>3. /\ pc' = [k \in Jobs |-> pc'[k]]
        /\ pc'[j] \in {"clearing", "expiring"}
        /\ out'[j] = ClearPending(file) /\ waiting' = waiting /\ arg' = arg
        /\ \A k \in Jobs \ {j} : pc'[k] = pc[k] /\ out'[k] = out[k]
    BY <1>f, <1>2, AuthFacts DEF Clear, ReadFor, Goto, TypeOK
  <2>4. Moves(j)
    BY <1>f, <2>1, <2>3, AuthFacts
       DEF Moves, JobOK, Redeemed, Rotating, Saving, Using, Writing
  <2> QED BY <1>f, <1>2, <2>2, <2>3, <2>4 DEF Clear, server, QuietStep, Kept
<1> QED BY <1>1, <1>2
LEMMA ClearedQuiet ==
  ASSUME AuthInv, NEW j \in Jobs, Cleared(j)
  PROVE  QuietStep
<1>f. /\ JobOK(j) /\ pc[j] \in {"clearing", "expiring"}
      /\ out[j] \in Configurations /\ out[j] # None
  BY AuthFacts DEF Cleared, TypeOK, JobOK, Writing
<1>1. TypeOK'
  BY <1>f, AuthFacts
     DEF Cleared, Replace, AfterClear, Ended, AbortPoll, Goto, About, server, TypeOK
<1>2. /\ pc' = [k \in Jobs |-> pc'[k]]
      /\ pc'[j] \in {"idle", "cancel"}
      /\ out'[j] = None /\ waiting' = waiting
      /\ pc'[j] # "idle" => arg'[j] = arg[j]
      /\ \A k \in Jobs \ {j} : pc'[k] = pc[k] /\ arg'[k] = arg[k] /\ out'[k] = out[k]
  BY <1>f, AuthFacts DEF Cleared, Replace, AfterClear, Ended, Goto, About, TypeOK
<1>3. Moves(j)
  BY <1>f, <1>2 DEF Moves, JobOK, Redeemed, Rotating, Saving, Using, Writing
<1> QED BY <1>f, <1>1, <1>2, <1>3 DEF Cleared, Replace, server, QuietStep, Kept

LEMMA ClearFailsQuiet ==
  ASSUME AuthInv, NEW j \in Jobs, ClearFails(j)
  PROVE  QuietStep
<1>f. JobOK(j) /\ pc[j] \in {"clearing", "expiring"}
  BY AuthFacts DEF ClearFails
<1>1. TypeOK'
  BY <1>f, AuthFacts
     DEF ClearFails, ReplaceFails, AfterClear, Ended, AbortPoll, Goto, About, server, TypeOK
<1>2. /\ pc' = [k \in Jobs |-> pc'[k]]
      /\ pc'[j] \in {"idle", "cancel", "retry"} /\ (pc'[j] = "retry" => j \in Polls)
      /\ out'[j] = None /\ waiting' = waiting
      /\ pc'[j] # "idle" => arg'[j] = arg[j]
      /\ \A k \in Jobs \ {j} : pc'[k] = pc[k] /\ arg'[k] = arg[k] /\ out'[k] = out[k]
  BY <1>f, AuthFacts DEF ClearFails, ReplaceFails, AfterClear, Ended, Goto, About, TypeOK
<1>3. Moves(j)
  BY <1>f, <1>2 DEF Moves, JobOK, Redeemed, Rotating, Saving, Using, Writing
<1> QED BY <1>f, <1>1, <1>2, <1>3 DEF ClearFails, ReplaceFails, server, QuietStep, Kept

LEMMA CancelQuiet ==
  ASSUME AuthInv, NEW j \in Jobs, Cancel(j)
  PROVE  QuietStep
<1>f. JobOK(j) /\ pc[j] = "cancel"
  BY AuthFacts DEF Cancel
<1>1. TypeOK'
  <2>1. grant' \in [Enrollments -> {"none", "waiting", "approved", "closed"}]
    BY AuthFacts DEF Cancel, TypeOK
  <2>2. prepared' \in BOOLEAN
    BY <1>f, AuthFacts DEF Cancel, TypeOK
  <2> QED BY <1>f, <2>1, <2>2, AuthFacts DEF Cancel, Ended, Goto, About, TypeOK
<1>2. /\ pc' = [k \in Jobs |-> pc'[k]]
      /\ pc'[j] \in {"idle", "clear", "revoke"}
      /\ out' = out /\ waiting' = waiting
      /\ pc'[j] # "idle" => arg'[j] = arg[j]
      /\ \A k \in Jobs \ {j} : pc'[k] = pc[k] /\ arg'[k] = arg[k]
  BY <1>f, AuthFacts DEF Cancel, Ended, Goto, About, TypeOK
<1>3. Moves(j)
  BY <1>f, <1>2 DEF Moves, JobOK, Redeemed, Rotating, Saving, Using, Writing
<1>4. \A e \in Enrollments : grant'[e] # "closed" => grant[e] # "closed"
  BY AuthFacts DEF Cancel, TypeOK
<1> QED BY <1>f, <1>1, <1>2, <1>3, <1>4 DEF Cancel, QuietStep, Kept

LEMMA SaveQuiet ==
  ASSUME AuthInv, NEW j \in Jobs, Save(j)
  PROVE  QuietStep
<1>f. /\ JobOK(j) /\ pc[j] \in {"save", "schedule", "retry"}
      /\ arg[j] \in Enrollments
  BY AuthFacts DEF Save, JobOK, Saving
<1>u. /\ SavePending(file, arg[j]) \in Configurations
      /\ Coherent(SavePending(file, arg[j]))
      /\ SavePending(file, arg[j]).inst = file.inst
  BY <1>f, AuthFacts, UpdatesCoherent
<1>1. TypeOK'
  BY <1>f, <1>u, AuthFacts DEF Save, ReadFor, Goto, memory, server, TypeOK
<1>2. /\ pc' = [k \in Jobs |-> pc'[k]]
      /\ pc'[j] \in {"saving", "scheduling", "retrying"}
      /\ out'[j] = SavePending(file, arg[j]) /\ waiting' = waiting /\ arg' = arg
      /\ \A k \in Jobs \ {j} : pc'[k] = pc[k] /\ out'[k] = out[k]
  BY <1>f, AuthFacts DEF Save, ReadFor, Goto, TypeOK
<1>3. Moves(j)
  BY <1>f, <1>u, <1>2, AuthFacts
     DEF Moves, JobOK, Redeemed, Rotating, Saving, Using, Writing
<1> QED BY <1>f, <1>1, <1>2, <1>3 DEF Save, memory, server, QuietStep, Kept

LEMMA SavedQuiet ==
  ASSUME AuthInv, NEW j \in Jobs, Saved(j)
  PROVE  QuietStep
<1>f. /\ JobOK(j) /\ pc[j] \in {"saving", "scheduling", "retrying"}
      /\ arg[j] \in Enrollments /\ out[j] \in Configurations /\ out[j] # None
  BY AuthFacts DEF Saved, JobOK, TypeOK, Saving, Writing
<1>1. CASE j = "continue"
  <2> PICK p \in Polls :
        /\ [pc EXCEPT ![j] = "idle"][p] = "idle"
        /\ pc' = [[pc EXCEPT ![j] = "idle"] EXCEPT ![p] = "wait"]
        /\ arg' = [arg EXCEPT ![p] = arg[j], ![j] = None]
        /\ AbortPoll /\ controller' = p
    BY <1>1 DEF Saved, BeginPolling
  <2>1. p \in Jobs /\ p # j /\ pc[p] = "idle" /\ JobOK(p)
    BY <1>1, AuthFacts
  <2>2. TypeOK'
    BY <1>1, <1>f, <2>1, AuthFacts DEF Saved, Replace, AbortPoll, server, TypeOK
  <2>3. /\ pc' = [k \in Jobs |-> pc'[k]]
        /\ pc'[j] = "idle" /\ pc'[p] = "wait" /\ arg'[p] = arg[j]
        /\ out'[j] = None /\ waiting' = waiting
        /\ \A k \in Jobs \ {j} : out'[k] = out[k]
        /\ \A k \in Jobs \ {j, p} : pc'[k] = pc[k] /\ arg'[k] = arg[k]
    BY <1>f, <2>1, AuthFacts DEF Saved, Replace, TypeOK
  <2>4. Moves(j)
    BY <1>f, <2>3 DEF Moves, JobOK, Redeemed, Rotating, Saving, Using, Writing
  <2>5. Moves(p)
    BY <1>f, <2>1, <2>3, AuthFacts
       DEF Moves, JobOK, Redeemed, Rotating, Saving, Using, Writing
  <2> QED BY <1>f, <1>1, <2>2, <2>3, <2>4, <2>5
         DEF Saved, Replace, server, QuietStep, Kept
<1>2. CASE j # "continue"
  <2>1. TypeOK'
    BY <1>f, <1>2, AuthFacts DEF Saved, Replace, Goto, server, TypeOK
  <2>2. /\ pc' = [k \in Jobs |-> pc'[k]]
        /\ pc'[j] = "wait" /\ out'[j] = None /\ waiting' = waiting /\ arg' = arg
        /\ \A k \in Jobs \ {j} : pc'[k] = pc[k] /\ out'[k] = out[k]
    BY <1>f, <1>2, AuthFacts DEF Saved, Replace, Goto, TypeOK
  <2>3. Moves(j)
    BY <1>f, <2>2 DEF Moves, JobOK, Redeemed, Rotating, Saving, Using, Writing
  <2> QED BY <1>f, <1>2, <2>1, <2>2, <2>3 DEF Saved, Replace, server, QuietStep, Kept
<1> QED BY <1>1, <1>2

LEMMA SaveFailsQuiet ==
  ASSUME AuthInv, NEW j \in Jobs, SaveFails(j)
  PROVE  QuietStep
<1>f. /\ JobOK(j) /\ pc[j] \in {"saving", "scheduling", "retrying"}
      /\ arg[j] \in Enrollments
  BY AuthFacts DEF SaveFails, JobOK, Saving
<1>1. TypeOK'
  BY <1>f, AuthFacts DEF SaveFails, ReplaceFails, Goto, memory, server, TypeOK
<1>2. /\ pc' = [k \in Jobs |-> pc'[k]]
      /\ pc'[j] \in {"cancel", "retry", "wait"}
      /\ out'[j] = None /\ waiting' = waiting /\ arg' = arg
      /\ \A k \in Jobs \ {j} : pc'[k] = pc[k] /\ out'[k] = out[k]
  BY <1>f, AuthFacts DEF SaveFails, ReplaceFails, Goto, TypeOK
<1>3. Moves(j)
  BY <1>f, <1>2 DEF Moves, JobOK, Redeemed, Rotating, Saving, Using, Writing
<1> QED BY <1>f, <1>1, <1>2, <1>3
       DEF SaveFails, ReplaceFails, memory, server, QuietStep, Kept

LEMMA UserBeginsQuiet ==
  ASSUME AuthInv, NEW op \in {"start", "cancel", "signout"}, UserBegins(op)
  PROVE  QuietStep
<1>f. JobOK("user") /\ "user" \in Jobs /\ "user" \notin Polls /\ pc["user"] = "idle"
  BY AuthFacts DEF UserBegins
<1>1. TypeOK'
  BY <1>f, AuthFacts DEF UserBegins, AbortPoll, Goto, About, server, TypeOK
<1>2. /\ pc' = [k \in Jobs |-> pc'[k]]
      /\ pc'["user"] = "clear" /\ out' = out /\ waiting' = waiting
      /\ \A k \in Jobs \ {"user"} : pc'[k] = pc[k] /\ arg'[k] = arg[k]
  BY <1>f, AuthFacts DEF UserBegins, Goto, About, TypeOK
<1>3. Moves("user")
  BY <1>f, <1>2 DEF Moves, JobOK, Redeemed, Rotating, Saving, Using, Writing
<1> QED BY <1>f, <1>1, <1>2, <1>3 DEF UserBegins, server, QuietStep, Kept

LEMMA ContinueBeginsQuiet ==
  ASSUME AuthInv, ContinueBegins
  PROVE  QuietStep
<1> DEFINE current == file.pend # None /\ file.pend \notin late
<1>f. /\ JobOK("continue") /\ "continue" \in Jobs /\ "continue" \notin Polls
      /\ pc["continue"] = "idle"
  BY AuthFacts DEF ContinueBegins, MayBegin
<1>b. prepared' \in BOOLEAN
  BY AuthFacts DEF ContinueBegins, TypeOK
<1>1. CASE current /\ controller = None
  <2> PICK p \in Polls :
        /\ pc[p] = "idle"
        /\ pc' = [pc EXCEPT ![p] = "wait"]
        /\ arg' = [arg EXCEPT ![p] = file.pend, !["continue"] = None]
        /\ AbortPoll /\ controller' = p
    BY <1>1 DEF ContinueBegins, BeginPolling
  <2>1. p \in Jobs /\ p # "continue" /\ JobOK(p) /\ file.pend \in Enrollments
    BY <1>1, AuthFacts
  <2>2. TypeOK'
    BY <1>f, <1>b, <2>1, AuthFacts DEF ContinueBegins, AbortPoll, server, TypeOK
  <2>3. /\ pc' = [k \in Jobs |-> pc'[k]]
        /\ pc'["continue"] = "idle" /\ pc'[p] = "wait" /\ arg'[p] = file.pend
        /\ out' = out /\ waiting' = waiting
        /\ \A k \in Jobs \ {"continue", p} : pc'[k] = pc[k] /\ arg'[k] = arg[k]
    BY <1>f, <2>1, AuthFacts DEF ContinueBegins, TypeOK
  <2>4. Moves("continue")
    BY <1>f, <2>3 DEF Moves, JobOK, Redeemed, Rotating, Saving, Using, Writing
  <2>5. Moves(p)
    BY <1>f, <2>1, <2>3, AuthFacts
       DEF Moves, JobOK, Redeemed, Rotating, Saving, Using, Writing
  <2> QED BY <1>f, <2>2, <2>3, <2>4, <2>5 DEF ContinueBegins, server, QuietStep, Kept
<1>2. CASE ~(current /\ controller = None)
  <2>1. TypeOK'
    BY <1>f, <1>b, <1>2, AuthFacts DEF ContinueBegins, Goto, server, TypeOK
  <2>2. /\ pc' = [k \in Jobs |-> pc'[k]]
        /\ pc'["continue"] \in {"idle", "create"}
        /\ out' = out /\ waiting' = waiting /\ arg' = arg
        /\ \A k \in Jobs \ {"continue"} : pc'[k] = pc[k]
    BY <1>f, <1>2, AuthFacts DEF ContinueBegins, Goto, TypeOK
  <2>3. Moves("continue")
    BY <1>f, <2>2 DEF Moves, JobOK, Redeemed, Rotating, Saving, Using, Writing
  <2> QED BY <1>f, <2>1, <2>2, <2>3 DEF ContinueBegins, server, QuietStep, Kept
<1> QED BY <1>1, <1>2

LEMMA CreateQuiet ==
  ASSUME AuthInv, Create
  PROVE  QuietStep
<1>f. /\ JobOK("continue") /\ "continue" \in Jobs /\ "continue" \notin Polls
      /\ pc["continue"] = "create"
  BY AuthFacts DEF Create
<1>1. CASE Goto("continue", "clear") /\ UNCHANGED <<arg, grant>>
  <2>1. TypeOK'
    BY <1>f, <1>1, AuthFacts DEF Create, Goto, memory, TypeOK
  <2>2. /\ pc' = [k \in Jobs |-> pc'[k]]
        /\ pc'["continue"] = "clear" /\ out' = out /\ waiting' = waiting /\ arg' = arg
        /\ \A k \in Jobs \ {"continue"} : pc'[k] = pc[k]
    BY <1>f, <1>1, AuthFacts DEF Create, Goto, TypeOK
  <2>3. Moves("continue")
    BY <1>f, <2>2 DEF Moves, JobOK, Redeemed, Rotating, Saving, Using, Writing
  <2> QED BY <1>f, <1>1, <2>1, <2>2, <2>3 DEF Create, memory, QuietStep, Kept
<1>2. ASSUME NEW e \in Enrollments, grant[e] = "none",
             grant' = [grant EXCEPT ![e] = "waiting"],
             About("continue", e), Goto("continue", "save")
      PROVE  QuietStep
  <2>1. TypeOK'
    BY <1>f, <1>2, AuthFacts DEF Create, Goto, About, memory, TypeOK
  <2>2. /\ pc' = [k \in Jobs |-> pc'[k]]
        /\ pc'["continue"] = "save" /\ out' = out /\ waiting' = waiting
        /\ arg'["continue"] = e
        /\ \A k \in Jobs \ {"continue"} : pc'[k] = pc[k] /\ arg'[k] = arg[k]
    BY <1>f, <1>2, AuthFacts DEF Create, Goto, About, TypeOK
  <2>3. Moves("continue")
    BY <1>f, <2>2 DEF Moves, JobOK, Redeemed, Rotating, Saving, Using, Writing
  <2>4. \A x \in Enrollments : grant'[x] # "closed" => grant[x] # "closed"
    BY <1>2, AuthFacts DEF TypeOK
  <2> QED BY <1>f, <1>2, <2>1, <2>2, <2>3, <2>4 DEF Create, memory, QuietStep, Kept
<1> QED BY <1>1, <1>2 DEF Create

LEMMA StatusBeginsQuiet ==
  ASSUME AuthInv, StatusBegins
  PROVE  QuietStep
<1>f. /\ JobOK("status") /\ "status" \in Jobs /\ "status" \notin Polls
      /\ pc["status"] = "idle" /\ file.pend \in Enrollments
  BY AuthFacts DEF StatusBegins, MayBegin
<1>1. TypeOK'
  BY <1>f, AuthFacts DEF StatusBegins, Goto, About, memory, server, TypeOK
<1>2. /\ pc' = [k \in Jobs |-> pc'[k]]
      /\ pc'["status"] = "look" /\ out' = out /\ waiting' = waiting
      /\ arg'["status"] = file.pend
      /\ \A k \in Jobs \ {"status"} : pc'[k] = pc[k] /\ arg'[k] = arg[k]
  BY <1>f, AuthFacts DEF StatusBegins, Goto, About, TypeOK
<1>3. Moves("status")
  BY <1>f, <1>2 DEF Moves, JobOK, Redeemed, Rotating, Saving, Using, Writing
<1> QED BY <1>f, <1>1, <1>2, <1>3 DEF StatusBegins, memory, server, QuietStep, Kept

LEMMA StatusLooksQuiet ==
  ASSUME AuthInv, StatusLooks
  PROVE  QuietStep
<1>f. /\ JobOK("status") /\ "status" \in Jobs /\ "status" \notin Polls
      /\ pc["status"] = "look" /\ arg["status"] \in Enrollments
  BY AuthFacts DEF StatusLooks, JobOK, Saving
<1>1. CASE arg["status"] \notin late /\ controller = None
  <2> PICK p \in Polls :
        /\ [pc EXCEPT !["status"] = "idle"][p] = "idle"
        /\ pc' = [[pc EXCEPT !["status"] = "idle"] EXCEPT ![p] = "wait"]
        /\ arg' = [arg EXCEPT ![p] = arg["status"], !["status"] = None]
        /\ AbortPoll /\ controller' = p
    BY <1>1 DEF StatusLooks, BeginPolling
  <2>1. p \in Jobs /\ p # "status" /\ JobOK(p) /\ pc[p] = "idle"
    BY <1>1, AuthFacts
  <2>2. TypeOK'
    BY <1>f, <2>1, AuthFacts DEF StatusLooks, AbortPoll, server, TypeOK
  <2>3. /\ pc' = [k \in Jobs |-> pc'[k]]
        /\ pc'["status"] = "idle" /\ pc'[p] = "wait" /\ arg'[p] = arg["status"]
        /\ out' = out /\ waiting' = waiting
        /\ \A k \in Jobs \ {"status", p} : pc'[k] = pc[k] /\ arg'[k] = arg[k]
    BY <1>f, <2>1, AuthFacts DEF StatusLooks, TypeOK
  <2>4. Moves("status")
    BY <1>f, <2>3 DEF Moves, JobOK, Redeemed, Rotating, Saving, Using, Writing
  <2>5. Moves(p)
    BY <1>f, <2>1, <2>3, AuthFacts
       DEF Moves, JobOK, Redeemed, Rotating, Saving, Using, Writing
  <2> QED BY <1>f, <2>2, <2>3, <2>4, <2>5 DEF StatusLooks, server, QuietStep, Kept
<1>2. CASE ~(arg["status"] \notin late /\ controller = None)
  <2>1. TypeOK'
    BY <1>f, <1>2, AuthFacts DEF StatusLooks, Goto, server, TypeOK
  <2>2. /\ pc' = [k \in Jobs |-> pc'[k]]
        /\ pc'["status"] \in {"idle", "clear"}
        /\ out' = out /\ waiting' = waiting /\ arg' = arg
        /\ \A k \in Jobs \ {"status"} : pc'[k] = pc[k]
    BY <1>f, <1>2, AuthFacts DEF StatusLooks, Goto, TypeOK
  <2>3. Moves("status")
    BY <1>f, <2>2 DEF Moves, JobOK, Redeemed, Rotating, Saving, Using, Writing
  <2> QED BY <1>f, <2>1, <2>2, <2>3 DEF StatusLooks, server, QuietStep, Kept
<1> QED BY <1>1, <1>2

LEMMA PollWakesQuiet ==
  ASSUME AuthInv, NEW p \in Polls, PollWakes(p)
  PROVE  QuietStep
<1>f. JobOK(p) /\ p \in Jobs /\ pc[p] = "wait" /\ arg[p] \in Enrollments
  BY AuthFacts DEF PollWakes, JobOK
<1>1. TypeOK'
  BY <1>f, AuthFacts DEF PollWakes, Ended, Goto, About, server, TypeOK
<1>2. /\ pc' = [k \in Jobs |-> pc'[k]]
      /\ pc'[p] \in {"idle", "expire"} \/ (pc'[p] = "request" /\ arg'[p] = arg[p])
      /\ pc'[p] # "idle" => arg'[p] = arg[p]
      /\ out' = out /\ waiting' = waiting
      /\ \A k \in Jobs \ {p} : pc'[k] = pc[k] /\ arg'[k] = arg[k]
  BY <1>f, AuthFacts DEF PollWakes, Ended, Goto, About, TypeOK
<1>3. Moves(p)
  BY <1>f, <1>2 DEF Moves, JobOK, Redeemed, Rotating, Saving, Using, Writing
<1> QED BY <1>f, <1>1, <1>2, <1>3 DEF PollWakes, server, QuietStep, Kept

LEMMA PollProfiledQuiet ==
  ASSUME AuthInv, NEW p \in Polls, PollProfiled(p)
  PROVE  QuietStep
<1>f. JobOK(p) /\ p \in Jobs /\ pc[p] = "profile" /\ arg[p] \in Enrollments
  BY AuthFacts DEF PollProfiled, JobOK
<1>1. TypeOK'
  BY <1>f, AuthFacts DEF PollProfiled, Goto, memory, server, TypeOK
<1>2. /\ pc' = [k \in Jobs |-> pc'[k]]
      /\ pc'[p] \in {"complete", "clear"}
      /\ out' = out /\ waiting' = waiting /\ arg' = arg
      /\ \A k \in Jobs \ {p} : pc'[k] = pc[k]
  BY <1>f, AuthFacts DEF PollProfiled, Goto, TypeOK
<1>3. Moves(p)
  BY <1>f, <1>2 DEF Moves, JobOK, Redeemed, Rotating, Saving, Using, Writing
<1> QED BY <1>f, <1>1, <1>2, <1>3 DEF PollProfiled, memory, server, QuietStep, Kept

LEMMA CompleteQuiet ==
  ASSUME AuthInv, NEW p \in Polls, Complete(p)
  PROVE  QuietStep
<1> DEFINE first == [id |-> arg[p], gen |-> 1]
<1>f. JobOK(p) /\ p \in Jobs /\ pc[p] = "complete" /\ arg[p] \in Enrollments
  BY AuthFacts DEF Complete, JobOK
<1>u. /\ CompleteEnrollment(file, first) \in Configurations
      /\ Coherent(CompleteEnrollment(file, first))
      /\ CompleteEnrollment(file, first).inst = first
  <2>1. first \in Installations
    BY <1>f DEF Installations
  <2> QED BY <2>1, AuthFacts, UpdatesCoherent
<1>1. TypeOK'
  BY <1>f, <1>u, AuthFacts DEF Complete, ReadFor, Goto, memory, server, TypeOK
<1>2. /\ pc' = [k \in Jobs |-> pc'[k]]
      /\ pc'[p] = "completing" /\ out'[p] = CompleteEnrollment(file, first)
      /\ waiting' = waiting /\ arg' = arg
      /\ \A k \in Jobs \ {p} : pc'[k] = pc[k] /\ out'[k] = out[k]
  BY <1>f, AuthFacts DEF Complete, ReadFor, Goto, TypeOK
<1>3. Moves(p)
  BY <1>f, <1>u, <1>2, AuthFacts
     DEF Moves, JobOK, Redeemed, Rotating, Saving, Using, Writing
<1> QED BY <1>f, <1>1, <1>2, <1>3 DEF Complete, memory, server, QuietStep, Kept

LEMMA CompleteFailsQuiet ==
  ASSUME AuthInv, NEW p \in Polls, CompleteFails(p)
  PROVE  QuietStep
<1>f. JobOK(p) /\ p \in Jobs /\ pc[p] = "completing" /\ arg[p] \in Enrollments
  BY AuthFacts DEF CompleteFails, JobOK
<1>1. TypeOK'
  BY <1>f, AuthFacts DEF CompleteFails, ReplaceFails, Goto, memory, server, TypeOK
<1>2. /\ pc' = [k \in Jobs |-> pc'[k]]
      /\ pc'[p] = "retry" /\ out'[p] = None /\ waiting' = waiting /\ arg' = arg
      /\ \A k \in Jobs \ {p} : pc'[k] = pc[k] /\ out'[k] = out[k]
  BY <1>f, AuthFacts DEF CompleteFails, ReplaceFails, Goto, TypeOK
<1>3. Moves(p)
  BY <1>f, <1>2 DEF Moves, JobOK, Redeemed, Rotating, Saving, Using, Writing
<1> QED BY <1>f, <1>1, <1>2, <1>3
       DEF CompleteFails, ReplaceFails, memory, server, QuietStep, Kept

LEMMA RequestBeginsQuiet ==
  ASSUME AuthInv, RequestBegins
  PROVE  QuietStep
<1>f. /\ JobOK("request") /\ "request" \in Jobs /\ "request" \notin Polls
      /\ pc["request"] = "idle" /\ file.inst \in KnownTokens
      /\ file.inst \in Installations
  BY AuthFacts DEF RequestBegins, MayBegin
<1>1. TypeOK'
  BY <1>f, AuthFacts DEF RequestBegins, Goto, About, memory, server, TypeOK
<1>2. /\ pc' = [k \in Jobs |-> pc'[k]]
      /\ pc'["request"] = "access" /\ out' = out /\ waiting' = waiting
      /\ arg'["request"] = file.inst
      /\ \A k \in Jobs \ {"request"} : pc'[k] = pc[k] /\ arg'[k] = arg[k]
  BY <1>f, AuthFacts DEF RequestBegins, Goto, About, TypeOK
<1>3. Moves("request")
  BY <1>f, <1>2 DEF Moves, JobOK, Redeemed, Rotating, Saving, Using, Writing
<1> QED BY <1>f, <1>1, <1>2, <1>3 DEF RequestBegins, memory, server, QuietStep, Kept

LEMMA SignOutReadsQuiet ==
  ASSUME AuthInv, SignOutReads
  PROVE  QuietStep
<1>f. /\ JobOK("user") /\ "user" \in Jobs /\ "user" \notin Polls
      /\ pc["user"] = "revoke"
      /\ file.inst # None => file.inst \in KnownTokens /\ file.inst \in Installations
  BY AuthFacts DEF SignOutReads
<1>1. TypeOK'
  BY <1>f, AuthFacts DEF SignOutReads, ClearMemory, Goto, About, server, TypeOK
<1>2. /\ pc' = [k \in Jobs |-> pc'[k]]
      /\ \/ pc'["user"] = "wipe"
         \/ pc'["user"] = "access" /\ arg'["user"] = file.inst /\ file.inst # None
      /\ out' = out /\ waiting' = waiting
      /\ \A k \in Jobs \ {"user"} : pc'[k] = pc[k] /\ arg'[k] = arg[k]
  BY <1>f, AuthFacts DEF SignOutReads, Goto, About, TypeOK
<1>3. Moves("user")
  BY <1>f, <1>2 DEF Moves, JobOK, Redeemed, Rotating, Saving, Using, Writing
<1>4. access' \in {access, None}
  BY DEF SignOutReads, ClearMemory
<1> QED BY <1>f, <1>1, <1>2, <1>3, <1>4 DEF SignOutReads, server, QuietStep, Kept

LEMMA EnsureAccessQuiet ==
  ASSUME AuthInv, NEW j \in Jobs, EnsureAccess(j)
  PROVE  QuietStep
<1>f. /\ JobOK(j) /\ pc[j] = "access" /\ arg[j] \in KnownTokens
      /\ j \in {"user", "request"} /\ j \notin Polls \cup Flights
      /\ arg[j] \in Installations
  <2>1. JobOK(j) /\ pc[j] = "access"
    BY AuthFacts DEF EnsureAccess
  <2>2. arg[j] \in KnownTokens /\ j \in {"user", "request"}
    BY <2>1 DEF JobOK, Using
  <2> QED BY <2>1, <2>2, AuthFacts
<1>1. CASE Goto(j, "signed") /\ UNCHANGED <<arg, waiting, flight>>
  <2>1. TypeOK'
    BY <1>f, <1>1, AuthFacts DEF EnsureAccess, Goto, server, TypeOK
  <2>2. /\ pc' = [k \in Jobs |-> pc'[k]]
        /\ pc'[j] = "signed" /\ out' = out /\ waiting' = waiting /\ arg' = arg
        /\ \A k \in Jobs \ {j} : pc'[k] = pc[k]
    BY <1>f, <1>1, AuthFacts DEF EnsureAccess, Goto, TypeOK
  <2>3. Moves(j)
    BY <1>f, <2>2 DEF Moves, JobOK, Redeemed, Rotating, Saving, Using, Writing
  <2> QED BY <1>f, <1>1, <2>1, <2>2, <2>3 DEF EnsureAccess, server, QuietStep, Kept
<1>2. CASE /\ flight # None /\ Goto(j, "await")
           /\ waiting' = [waiting EXCEPT ![j] = flight]
           /\ UNCHANGED <<arg, flight>>
  <2>1. TypeOK'
    BY <1>f, <1>2, AuthFacts DEF EnsureAccess, Goto, server, TypeOK
  <2>2. /\ pc' = [k \in Jobs |-> pc'[k]]
        /\ pc'[j] = "await" /\ out' = out /\ arg' = arg
        /\ \A k \in Jobs \ {j} : pc'[k] = pc[k] /\ waiting'[k] = waiting[k]
    BY <1>f, <1>2, AuthFacts DEF EnsureAccess, Goto, TypeOK
  <2>3. Moves(j)
    BY <1>f, <2>2 DEF Moves, JobOK, Redeemed, Rotating, Saving, Using, Writing
  <2> QED BY <1>f, <1>2, <2>1, <2>2, <2>3 DEF EnsureAccess, server, QuietStep, Kept
<1>3. ASSUME NEW f \in Flights, pc[f] = "idle",
             pc' = [pc EXCEPT ![j] = "await", ![f] = "refresh"],
             arg' = [arg EXCEPT ![f] = arg[j]],
             waiting' = [waiting EXCEPT ![j] = f], flight' = f
      PROVE  QuietStep
  <2>1. f \in Jobs /\ f # j /\ JobOK(f) /\ f \notin Polls
    BY <1>f, AuthFacts, AuthAssumption
  <2>2. TypeOK'
    BY <1>f, <1>3, <2>1, AuthFacts DEF EnsureAccess, server, TypeOK
  <2>3. /\ pc' = [k \in Jobs |-> pc'[k]]
        /\ pc'[j] = "await" /\ out' = out /\ arg'[j] = arg[j]
        /\ pc'[f] = "refresh" /\ arg'[f] = arg[j] /\ waiting'[f] = waiting[f]
        /\ \A k \in Jobs \ {j, f} :
             pc'[k] = pc[k] /\ arg'[k] = arg[k] /\ waiting'[k] = waiting[k]
    <3>1. /\ arg \in [Jobs -> Enrollments \cup Installations \cup {None}]
          /\ waiting \in [Jobs -> Flights \cup {None}]
          /\ pc = [k \in Jobs |-> pc[k]]
      BY AuthFacts DEF TypeOK
    <3>2. out' = out
      BY DEF EnsureAccess
    <3> QED BY <1>3, <2>1, <3>1, <3>2
  <2>4. Moves(j)
    BY <1>f, <2>3 DEF Moves, JobOK, Redeemed, Rotating, Saving, Using, Writing
  <2>5. Moves(f)
    BY <1>f, <1>3, <2>1, <2>3
       DEF Moves, JobOK, Redeemed, Rotating, Saving, Using, Writing
  <2> QED BY <1>f, <1>3, <2>2, <2>3, <2>4, <2>5 DEF EnsureAccess, server, QuietStep, Kept
<1> QED BY <1>1, <1>2, <1>3 DEF EnsureAccess

LEMMA SettledMoves ==
  ASSUME AuthInv, NEW f \in Flights, NEW ok \in BOOLEAN, Settled(f, ok),
         pc[f] # "completing",
         out' \in [Jobs -> Configurations \cup {None}],
         \A k \in Jobs : out'[k] = out[k] \/ (k = f /\ out'[k] = None)
  PROVE  /\ pc' = [k \in Jobs |-> pc'[k]]
         /\ arg' \in [Jobs -> Enrollments \cup Installations \cup {None}]
         /\ waiting' \in [Jobs -> Flights \cup {None}]
         /\ flight' = None
         /\ \A k \in Jobs : Kept(k) \/ Moves(k)
<1>p. f \in Jobs /\ f \notin {"user", "request"}
  BY AuthFacts
<1>1. /\ pc' = [k \in Jobs |-> pc'[k]]
      /\ pc'[f] = "idle"
      /\ \A k \in Jobs \ {f} :
           /\ waiting[k] = f => pc'[k] \in {"signed", "forget", "note"}
           /\ waiting[k] # f => pc'[k] = pc[k]
  BY <1>p DEF Settled
<1>2. /\ waiting' \in [Jobs -> Flights \cup {None}] /\ flight' = None
      /\ \A k \in Jobs : waiting'[k] = IF waiting[k] = f THEN None ELSE waiting[k]
  BY AuthFacts DEF Settled, TypeOK
<1>3. /\ arg' \in [Jobs -> Enrollments \cup Installations \cup {None}]
      /\ \A k \in Jobs : pc'[k] # "idle" => arg'[k] = arg[k]
  BY AuthFacts DEF Settled, TypeOK
<1>4. ASSUME NEW k \in Jobs
      PROVE  Kept(k) \/ Moves(k)
  <2>k. JobOK(k) /\ f # None
    BY AuthFacts, AuthAssumption, <1>p
  <2>1. CASE pc'[k] = "idle"
    <3>1. pc[k] # "completing"
      BY <1>1, <2>1, <2>k DEF JobOK
    <3>2. waiting'[k] = None
      BY <1>p, <1>1, <1>2, <2>1, <2>k DEF JobOK
    <3> QED BY <2>1, <2>k, <3>1, <3>2
           DEF Moves, JobOK, Redeemed, Rotating, Saving, Using, Writing
  <2>2. CASE pc'[k] # "idle" /\ waiting[k] # f
    BY <1>1, <1>2, <1>3, <2>2 DEF Kept
  <2>3. CASE pc'[k] # "idle" /\ waiting[k] = f
    <3>1. pc[k] = "await" /\ k \in {"user", "request"} /\ k # f /\ k \notin Polls
      BY <1>p, <2>3, <2>k, AuthFacts DEF JobOK
    <3>2. /\ pc'[k] \in {"signed", "forget", "note"} /\ waiting'[k] = None
          /\ out'[k] = out[k]
      BY <1>1, <1>2, <2>3, <3>1
    <3> QED BY <2>k, <3>1, <3>2
           DEF Moves, JobOK, Redeemed, Rotating, Saving, Using, Writing
  <2> QED BY <2>1, <2>2, <2>3
<1> QED BY <1>1, <1>2, <1>3, <1>4

LEMMA RefreshUnsentQuiet ==
  ASSUME AuthInv, NEW f \in Flights, RefreshUnsent(f)
  PROVE  QuietStep
<1>1. /\ pc' = [k \in Jobs |-> pc'[k]]
      /\ arg' \in [Jobs -> Enrollments \cup Installations \cup {None}]
      /\ waiting' \in [Jobs -> Flights \cup {None}]
      /\ flight' = None
      /\ \A k \in Jobs : Kept(k) \/ Moves(k)
  BY AuthFacts, SettledMoves DEF RefreshUnsent, TypeOK
<1>2. TypeOK'
  BY <1>1, AuthFacts DEF RefreshUnsent, server, TypeOK
<1> QED BY <1>1, <1>2 DEF RefreshUnsent, server, QuietStep

LEMMA RefreshRefusedQuiet ==
  ASSUME AuthInv, NEW f \in Flights, RefreshRefused(f)
  PROVE  QuietStep
<1>f. JobOK(f) /\ f \in Jobs /\ pc[f] = "refresh" /\ f \notin Polls
  BY AuthFacts, AuthAssumption DEF RefreshRefused
<1>1. TypeOK'
  BY <1>f, AuthFacts DEF RefreshRefused, Goto, memory, server, TypeOK
<1>2. /\ pc' = [k \in Jobs |-> pc'[k]]
      /\ pc'[f] = "mark" /\ out' = out /\ waiting' = waiting /\ arg' = arg
      /\ \A k \in Jobs \ {f} : pc'[k] = pc[k]
  BY <1>f, AuthFacts DEF RefreshRefused, Goto, TypeOK
<1>3. Moves(f)
  BY <1>f, <1>2 DEF Moves, JobOK, Redeemed, Rotating, Saving, Using, Writing
<1> QED BY <1>f, <1>1, <1>2, <1>3 DEF RefreshRefused, memory, server, QuietStep, Kept

LEMMA RotateReadsQuiet ==
  ASSUME AuthInv, NEW f \in Flights, RotateReads(f)
  PROVE  QuietStep
<1>f. /\ JobOK(f) /\ f \in Jobs /\ pc[f] = "rotate" /\ f \notin Polls
      /\ arg[f] \in KnownTokens /\ arg[f] \in Installations
  BY AuthFacts, AuthAssumption DEF RotateReads, JobOK, Rotating
<1>1. CASE file.inst = None
  <2>1. TypeOK'
    BY <1>f, <1>1, AuthFacts DEF RotateReads, Compromise, ClearMemory, Goto, server, TypeOK
  <2>2. /\ pc' = [k \in Jobs |-> pc'[k]]
        /\ pc'[f] = "wipe" /\ out' = out /\ waiting' = waiting /\ arg' = arg
        /\ \A k \in Jobs \ {f} : pc'[k] = pc[k]
    BY <1>f, <1>1, AuthFacts DEF RotateReads, Compromise, Goto, TypeOK
  <2>3. Moves(f)
    BY <1>f, <2>2 DEF Moves, JobOK, Redeemed, Rotating, Saving, Using, Writing
  <2> QED BY <1>f, <1>1, <2>1, <2>2, <2>3
         DEF RotateReads, Compromise, ClearMemory, server, QuietStep, Kept
<1>2. CASE file.inst # None
  <2>1. /\ Rotate(file, arg[f]) \in Configurations
        /\ Coherent(Rotate(file, arg[f]))
        /\ Rotate(file, arg[f]).inst = arg[f]
    BY <1>f, <1>2, AuthFacts, UpdatesCoherent
  <2>2. TypeOK'
    BY <1>f, <1>2, <2>1, AuthFacts DEF RotateReads, ReadFor, Goto, server, TypeOK
  <2>3. /\ pc' = [k \in Jobs |-> pc'[k]]
        /\ pc'[f] = "rotating" /\ out'[f] = Rotate(file, arg[f])
        /\ waiting' = waiting /\ arg' = arg
        /\ \A k \in Jobs \ {f} : pc'[k] = pc[k] /\ out'[k] = out[k]
    BY <1>f, <1>2, AuthFacts DEF RotateReads, ReadFor, Goto, TypeOK
  <2>4. Moves(f)
    BY <1>f, <2>1, <2>3, AuthFacts
       DEF Moves, JobOK, Redeemed, Rotating, Saving, Using, Writing
  <2> QED BY <1>f, <1>2, <2>2, <2>3, <2>4 DEF RotateReads, server, QuietStep, Kept
<1> QED BY <1>1, <1>2

LEMMA RotateFailsQuiet ==
  ASSUME AuthInv, NEW f \in Flights, RotateFails(f)
  PROVE  QuietStep
<1>f. JobOK(f) /\ f \in Jobs /\ pc[f] = "rotating" /\ f \notin Polls
  BY AuthFacts, AuthAssumption DEF RotateFails
<1>1. TypeOK'
  BY <1>f, AuthFacts
     DEF RotateFails, ReplaceFails, Compromise, ClearMemory, Goto, server, TypeOK
<1>2. /\ pc' = [k \in Jobs |-> pc'[k]]
      /\ pc'[f] = "wipe" /\ out'[f] = None /\ waiting' = waiting /\ arg' = arg
      /\ \A k \in Jobs \ {f} : pc'[k] = pc[k] /\ out'[k] = out[k]
  BY <1>f, AuthFacts DEF RotateFails, ReplaceFails, Compromise, Goto, TypeOK
<1>3. Moves(f)
  BY <1>f, <1>2 DEF Moves, JobOK, Redeemed, Rotating, Saving, Using, Writing
<1> QED BY <1>f, <1>1, <1>2, <1>3
       DEF RotateFails, ReplaceFails, Compromise, ClearMemory, server, QuietStep, Kept

LEMMA AnsweredQuiet ==
  ASSUME AuthInv, Answered
  PROVE  QuietStep
<1>f. /\ JobOK("request") /\ "request" \in Jobs /\ "request" \notin Polls
      /\ pc["request"] = "signed"
  BY AuthFacts DEF Answered
<1>1. TypeOK'
  BY <1>f, AuthFacts DEF Answered, Goto, About, memory, server, TypeOK
<1>2. /\ pc' = [k \in Jobs |-> pc'[k]]
      /\ pc'["request"] \in {"idle", "note"} /\ out' = out /\ waiting' = waiting
      /\ \A k \in Jobs \ {"request"} : pc'[k] = pc[k] /\ arg'[k] = arg[k]
  BY <1>f, AuthFacts DEF Answered, Goto, About, TypeOK
<1>3. Moves("request")
  BY <1>f, <1>2 DEF Moves, JobOK, Redeemed, Rotating, Saving, Using, Writing
<1> QED BY <1>f, <1>1, <1>2, <1>3 DEF Answered, memory, server, QuietStep, Kept

LEMMA NoteQuiet ==
  ASSUME AuthInv, Note
  PROVE  QuietStep
<1>f. /\ JobOK("request") /\ "request" \in Jobs /\ "request" \notin Polls
      /\ pc["request"] = "note"
  BY AuthFacts DEF Note
<1>1. TypeOK'
  BY <1>f, AuthFacts DEF Note, ReadFor, Rewrite, Goto, memory, server, TypeOK
<1>2. /\ pc' = [k \in Jobs |-> pc'[k]]
      /\ pc'["request"] = "noting" /\ out'["request"] = file
      /\ waiting' = waiting /\ arg' = arg
      /\ \A k \in Jobs \ {"request"} : pc'[k] = pc[k] /\ out'[k] = out[k]
  BY <1>f, AuthFacts DEF Note, ReadFor, Rewrite, Goto, TypeOK
<1>3. Moves("request")
  BY <1>f, <1>2, AuthFacts DEF Moves, JobOK, Redeemed, Rotating, Saving, Using, Writing
<1> QED BY <1>f, <1>1, <1>2, <1>3 DEF Note, memory, server, QuietStep, Kept

LEMMA NotedQuiet ==
  ASSUME AuthInv, Noted
  PROVE  QuietStep
<1>j. /\ JobOK("request") /\ "request" \in Jobs /\ "request" \notin Polls
      /\ pc["request"] = "noting"
  BY AuthFacts DEF Noted
<1>o. out["request"] \in Configurations /\ out["request"] # None
  BY <1>j, AuthFacts DEF TypeOK, JobOK, Writing
<1>1. TypeOK'
  BY <1>j, <1>o, AuthFacts DEF Noted, Replace, Goto, About, memory, server, TypeOK
<1>2. /\ pc' = [k \in Jobs |-> pc'[k]]
      /\ pc'["request"] \in {"idle", "mark"} /\ out'["request"] = None
      /\ waiting' = waiting
      /\ \A k \in Jobs \ {"request"} :
           pc'[k] = pc[k] /\ arg'[k] = arg[k] /\ out'[k] = out[k]
  BY <1>j, AuthFacts DEF Noted, Replace, Goto, About, TypeOK
<1>3. Moves("request")
  BY <1>j, <1>2 DEF Moves, JobOK, Redeemed, Rotating, Saving, Using, Writing
<1> QED BY <1>j, <1>o, <1>1, <1>2, <1>3 DEF Noted, Replace, memory, server, QuietStep, Kept

LEMMA AfterMarkMoves ==
  ASSUME AuthInv, NEW j \in Jobs, AfterMark(j), pc[j] \in {"mark", "marking"},
         out' \in [Jobs -> Configurations \cup {None}],
         \A k \in Jobs : out'[k] = out[k] \/ (k = j /\ out'[k] = None)
  PROVE  /\ pc' = [k \in Jobs |-> pc'[k]]
         /\ arg' \in [Jobs -> Enrollments \cup Installations \cup {None}]
         /\ waiting' \in [Jobs -> Flights \cup {None}]
         /\ access' = None /\ flight' = None
         /\ \A k \in Jobs : Kept(k) \/ Moves(k)
<1>f. JobOK(j)
  BY AuthFacts
<1>1. CASE j \in Flights
  BY <1>1, AuthFacts, SettledMoves DEF AfterMark
<1>2. CASE j \notin Flights
  <2>1. /\ pc' = [k \in Jobs |-> pc'[k]]
        /\ pc'[j] = "idle" /\ waiting' = waiting
        /\ arg' \in [Jobs -> Enrollments \cup Installations \cup {None}]
        /\ \A k \in Jobs \ {j} : pc'[k] = pc[k] /\ arg'[k] = arg[k]
    BY <1>2, AuthFacts DEF AfterMark, Goto, About, TypeOK
  <2>2. Moves(j)
    BY <1>f, <2>1 DEF Moves, JobOK, Redeemed, Rotating, Saving, Using, Writing
  <2> QED BY <1>2, <2>1, <2>2, AuthFacts DEF AfterMark, Kept, TypeOK
<1> QED BY <1>1, <1>2

LEMMA MarkQuiet ==
  ASSUME AuthInv, NEW j \in Jobs, Mark(j)
  PROVE  QuietStep
<1>f. JobOK(j) /\ pc[j] = "mark"
  BY AuthFacts DEF Mark
<1>1. CASE file.metadata # "none"
  <2>1. /\ MarkReconnect(file) \in Configurations /\ Coherent(MarkReconnect(file))
        /\ MarkReconnect(file).inst = file.inst
    BY AuthFacts, UpdatesCoherent
  <2>2. TypeOK'
    BY <1>f, <1>1, <2>1, AuthFacts DEF Mark, ReadFor, Goto, server, TypeOK
  <2>3. /\ pc' = [k \in Jobs |-> pc'[k]]
        /\ pc'[j] = "marking" /\ out'[j] = MarkReconnect(file)
        /\ waiting' = waiting /\ arg' = arg
        /\ \A k \in Jobs \ {j} : pc'[k] = pc[k] /\ out'[k] = out[k]
    BY <1>f, <1>1, AuthFacts DEF Mark, ReadFor, Goto, TypeOK
  <2>4. Moves(j)
    BY <1>f, <2>1, <2>3, AuthFacts
       DEF Moves, JobOK, Redeemed, Rotating, Saving, Using, Writing
  <2> QED BY <1>f, <1>1, <2>2, <2>3, <2>4 DEF Mark, server, QuietStep, Kept
<1>2. CASE file.metadata = "none"
  <2>1. AfterMark(j) /\ out' = out
    BY <1>2 DEF Mark
  <2>2. /\ pc' = [k \in Jobs |-> pc'[k]]
        /\ arg' \in [Jobs -> Enrollments \cup Installations \cup {None}]
        /\ waiting' \in [Jobs -> Flights \cup {None}]
        /\ access' = None /\ flight' = None
        /\ \A k \in Jobs : Kept(k) \/ Moves(k)
    BY <1>f, <2>1, AuthFacts, AfterMarkMoves DEF TypeOK
  <2>3. TypeOK'
    BY <2>1, <2>2, AuthFacts DEF Mark, server, TypeOK
  <2> QED BY <2>2, <2>3 DEF Mark, server, QuietStep
<1> QED BY <1>1, <1>2

LEMMA MarkedQuiet ==
  ASSUME AuthInv, NEW j \in Jobs, Marked(j)
  PROVE  QuietStep
<1>f. JobOK(j) /\ pc[j] = "marking"
  BY AuthFacts DEF Marked
<1>o. out[j] \in Configurations /\ out[j] # None
  BY <1>f, AuthFacts DEF TypeOK, JobOK, Writing
<1>1. /\ out' \in [Jobs -> Configurations \cup {None}] /\ file' = out[j]
      /\ \A k \in Jobs : out'[k] = out[k] \/ (k = j /\ out'[k] = None)
  BY AuthFacts DEF Marked, Replace, TypeOK
<1>2. /\ pc' = [k \in Jobs |-> pc'[k]]
      /\ arg' \in [Jobs -> Enrollments \cup Installations \cup {None}]
      /\ waiting' \in [Jobs -> Flights \cup {None}]
      /\ access' = None /\ flight' = None
      /\ \A k \in Jobs : Kept(k) \/ Moves(k)
  BY <1>f, <1>1, AfterMarkMoves DEF Marked
<1>3. TypeOK'
  BY <1>o, <1>1, <1>2, AuthFacts DEF Marked, server, TypeOK
<1> QED BY <1>f, <1>o, <1>1, <1>2, <1>3 DEF Marked, server, QuietStep

LEMMA RevokeQuiet ==
  ASSUME AuthInv, Revoke
  PROVE  QuietStep
<1>f. /\ JobOK("user") /\ "user" \in Jobs /\ "user" \notin Polls
      /\ pc["user"] \in {"signed", "forget"}
  BY AuthFacts DEF Revoke
<1>1. TypeOK'
  BY <1>f, AuthFacts DEF Revoke, ClearMemory, Goto, server, TypeOK
<1>2. /\ pc' = [k \in Jobs |-> pc'[k]]
      /\ pc'["user"] = "wipe" /\ out' = out /\ waiting' = waiting /\ arg' = arg
      /\ \A k \in Jobs \ {"user"} : pc'[k] = pc[k]
  BY <1>f, AuthFacts DEF Revoke, Goto, TypeOK
<1>3. Moves("user")
  BY <1>f, <1>2 DEF Moves, JobOK, Redeemed, Rotating, Saving, Using, Writing
<1> QED BY <1>f, <1>1, <1>2, <1>3 DEF Revoke, ClearMemory, server, QuietStep, Kept

LEMMA WipeQuiet ==
  ASSUME AuthInv, NEW j \in Jobs, Wipe(j)
  PROVE  QuietStep
<1>f. JobOK(j) /\ pc[j] = "wipe"
  BY AuthFacts DEF Wipe
<1>u. /\ SignOutLocal(file) \in Configurations /\ Coherent(SignOutLocal(file))
      /\ SignOutLocal(file).inst = None
  BY AuthFacts, UpdatesCoherent
<1>1. TypeOK'
  BY <1>f, <1>u, AuthFacts DEF Wipe, ReadFor, Goto, memory, server, TypeOK
<1>2. /\ pc' = [k \in Jobs |-> pc'[k]]
      /\ pc'[j] = "wiping" /\ out'[j] = SignOutLocal(file)
      /\ waiting' = waiting /\ arg' = arg
      /\ \A k \in Jobs \ {j} : pc'[k] = pc[k] /\ out'[k] = out[k]
  BY <1>f, AuthFacts DEF Wipe, ReadFor, Goto, TypeOK
<1>3. Moves(j)
  BY <1>f, <1>u, <1>2, AuthFacts
     DEF Moves, JobOK, Redeemed, Rotating, Saving, Using, Writing
<1> QED BY <1>f, <1>1, <1>2, <1>3 DEF Wipe, memory, server, QuietStep, Kept

LEMMA WipedQuiet ==
  ASSUME AuthInv, NEW j \in Jobs, Wiped(j)
  PROVE  QuietStep
<1>f. JobOK(j) /\ pc[j] = "wiping"
  BY AuthFacts DEF Wiped
<1>o. out[j] \in Configurations /\ out[j] # None
  BY <1>f, AuthFacts DEF TypeOK, JobOK, Writing
<1>1. /\ out' \in [Jobs -> Configurations \cup {None}]
      /\ file' = file \/ file' = out[j]
      /\ out'[j] = None /\ \A k \in Jobs \ {j} : out'[k] = out[k]
  BY AuthFacts DEF Wiped, Replace, ReplaceFails, TypeOK
<1>b. compromised' \in BOOLEAN
  BY AuthFacts DEF Wiped, TypeOK
<1>2. /\ pc' = [k \in Jobs |-> pc'[k]]
      /\ arg' \in [Jobs -> Enrollments \cup Installations \cup {None}]
      /\ waiting' \in [Jobs -> Flights \cup {None}]
      /\ flight' \in {flight, None}
      /\ \A k \in Jobs : Kept(k) \/ Moves(k)
  <2>1. CASE j \in Flights
    <3>1. Settled(j, FALSE)
      BY <2>1 DEF Wiped
    <3> QED BY <1>f, <1>1, <2>1, <3>1, SettledMoves
  <2>2. CASE j \notin Flights
    <3>1. /\ pc' = [k \in Jobs |-> pc'[k]]
          /\ pc'[j] = "idle" /\ waiting' = waiting /\ flight' = flight
          /\ arg' \in [Jobs -> Enrollments \cup Installations \cup {None}]
          /\ \A k \in Jobs \ {j} : pc'[k] = pc[k] /\ arg'[k] = arg[k]
      BY <2>2, AuthFacts DEF Wiped, Goto, About, TypeOK
    <3>2. Moves(j)
      BY <1>f, <1>1, <3>1 DEF Moves, JobOK, Redeemed, Rotating, Saving, Using, Writing
    <3> QED BY <1>1, <3>1, <3>2, AuthFacts DEF Kept, TypeOK
  <2> QED BY <2>1, <2>2
<1>3. TypeOK'
  BY <1>o, <1>b, <1>1, <1>2, AuthFacts DEF Wiped, server, TypeOK
<1> QED BY <1>f, <1>o, <1>1, <1>2, <1>3 DEF Wiped, server, QuietStep

LEMMA TouchBeginsQuiet ==
  ASSUME AuthInv, TouchBegins
  PROVE  QuietStep
<1>f. JobOK("touch") /\ "touch" \in Jobs /\ "touch" \notin Polls /\ pc["touch"] = "idle"
  BY AuthFacts DEF TouchBegins, MayBegin
<1> PICK c \in {Rewrite(file), SaveCustom(file)} : out' = [out EXCEPT !["touch"] = c]
  BY DEF TouchBegins, ReadFor
<1>u. c \in Configurations /\ Coherent(c) /\ c.inst \in KnownTokens \cup {None}
  <2>1. file \in Configurations /\ Coherent(file) /\ file.inst \in KnownTokens \cup {None}
    BY AuthFacts
  <2> QED BY <2>1, UpdatesCoherent DEF Rewrite
<1>1. TypeOK'
  BY <1>f, <1>u, AuthFacts DEF TouchBegins, Goto, memory, server, TypeOK
<1>2. /\ pc' = [k \in Jobs |-> pc'[k]]
      /\ pc'["touch"] = "touching" /\ out'["touch"] = c
      /\ waiting' = waiting /\ arg' = arg
      /\ \A k \in Jobs \ {"touch"} : pc'[k] = pc[k] /\ out'[k] = out[k]
  BY <1>f, AuthFacts DEF TouchBegins, Goto, TypeOK
<1>3. Moves("touch")
  BY <1>f, <1>u, <1>2, AuthFacts
     DEF Moves, JobOK, Redeemed, Rotating, Saving, Using, Writing
<1> QED BY <1>f, <1>1, <1>2, <1>3 DEF TouchBegins, memory, server, QuietStep, Kept

LEMMA TouchedQuiet ==
  ASSUME AuthInv, Touched
  PROVE  QuietStep
<1>j. /\ JobOK("touch") /\ "touch" \in Jobs /\ "touch" \notin Polls
      /\ pc["touch"] = "touching"
  BY AuthFacts DEF Touched
<1>o. out["touch"] \in Configurations /\ out["touch"] # None
  BY <1>j, AuthFacts DEF TypeOK, JobOK, Writing
<1>1. TypeOK'
  BY <1>j, <1>o, AuthFacts DEF Touched, Replace, Goto, memory, server, TypeOK
<1>2. /\ pc' = [k \in Jobs |-> pc'[k]]
      /\ pc'["touch"] = "idle" /\ out'["touch"] = None /\ waiting' = waiting /\ arg' = arg
      /\ \A k \in Jobs \ {"touch"} : pc'[k] = pc[k] /\ out'[k] = out[k]
  BY <1>j, AuthFacts DEF Touched, Replace, Goto, TypeOK
<1>3. Moves("touch")
  BY <1>j, <1>2 DEF Moves, JobOK, Redeemed, Rotating, Saving, Using, Writing
<1> QED BY <1>j, <1>o, <1>1, <1>2, <1>3
       DEF Touched, Replace, memory, server, QuietStep, Kept

LEMMA EnvironmentQuiet ==
  ASSUME AuthInv, Environment
  PROVE  QuietStep
<1>1. ASSUME NEW e \in Enrollments, EnrollmentExpires(e)
      PROVE  QuietStep
  <2>1. TypeOK'
    BY <1>1, AuthFacts DEF EnrollmentExpires, job, memory, TypeOK
  <2> QED BY <1>1, <2>1, AuthFacts DEF EnrollmentExpires, job, memory, QuietStep, Kept
<1>2. ASSUME NEW e \in Enrollments, GrantDecided(e)
      PROVE  QuietStep
  <2>1. TypeOK'
    BY <1>2, AuthFacts DEF GrantDecided, job, memory, TypeOK
  <2>2. \A x \in Enrollments : grant'[x] # "closed" => grant[x] # "closed"
    BY <1>2, AuthFacts DEF GrantDecided, TypeOK
  <2> QED BY <1>2, <2>1, <2>2, AuthFacts DEF GrantDecided, job, memory, QuietStep, Kept
<1>3. CASE PreparedExpires
  <2>1. TypeOK'
    BY <1>3, AuthFacts DEF PreparedExpires, job, server, TypeOK
  <2> QED BY <1>3, <2>1, AuthFacts DEF PreparedExpires, job, server, QuietStep, Kept
<1>4. CASE AccessAges
  <2>1. TypeOK'
    BY <1>4, AuthFacts DEF AccessAges, job, server, TypeOK
  <2> QED BY <1>4, <2>1, AuthFacts DEF AccessAges, job, server, QuietStep, Kept
<1>5. CASE Restart
  <2>1. TypeOK'
    BY <1>5, AuthFacts DEF Restart, server, TypeOK
  <2>2. \A k \in Jobs : Moves(k)
    BY <1>5 DEF Restart, Moves, Redeemed, Rotating, Saving, Using, Writing
  <2> QED BY <1>5, <2>1, <2>2 DEF Restart, server, QuietStep
<1> QED BY <1>1, <1>2, <1>3, <1>4, <1>5 DEF Environment

-----------------------------------------------------------------------------
(* The four steps by which a token is issued, stored or put to use.          *)

LEMMA PollAnsweredKeepsInv ==
  ASSUME AuthInv, NEW p \in Polls, PollAnswered(p)
  PROVE  AuthInv'
<1> DEFINE e == arg[p]
<1>f. /\ JobOK(p) /\ p \in Jobs /\ pc[p] = "request" /\ e \in Enrollments
      /\ p \notin Flights
  BY AuthFacts, AuthAssumption DEF PollAnswered, JobOK
<1>1. CASE /\ UNCHANGED <<grant, issued>>
           /\ Goto(p, "retry") \/ Goto(p, "schedule") \/ Goto(p, "clear")
  <2>1. TypeOK'
    BY <1>f, <1>1, AuthFacts DEF PollAnswered, Goto, memory, TypeOK
  <2>2. /\ pc' = [k \in Jobs |-> pc'[k]]
        /\ pc'[p] \in {"retry", "schedule", "clear"}
        /\ out' = out /\ waiting' = waiting /\ arg' = arg
        /\ \A k \in Jobs \ {p} : pc'[k] = pc[k]
    BY <1>f, <1>1, AuthFacts DEF PollAnswered, Goto, TypeOK
  <2>3. Moves(p)
    BY <1>f, <2>2 DEF Moves, JobOK, Redeemed, Rotating, Saving, Using, Writing
  <2>4. QuietStep
    BY <1>f, <1>1, <2>1, <2>2, <2>3 DEF PollAnswered, memory, QuietStep, Kept
  <2> QED BY <2>4, QuietStepKeepsInv
<1>2. CASE /\ grant[e] = "approved"
           /\ grant' = [grant EXCEPT ![e] = "closed"]
           /\ issued' = [issued EXCEPT ![e] = 1]
           /\ \/ pc' = [pc EXCEPT ![p] = "retry"]
              \/ pc' = [pc EXCEPT ![p] = "profile"]
  <2>u. /\ file' = file /\ arg' = arg /\ out' = out /\ userOp' = userOp
        /\ waiting' = waiting /\ controller' = controller /\ aborted' = aborted
        /\ prepared' = prepared /\ access' = access /\ flight' = flight
        /\ compromised' = compromised /\ late' = late
    BY DEF PollAnswered, memory
  <2>z. issued[e] = 0
    BY <1>f, <1>2 DEF AuthInv, Grants
  <2>1. TypeOK'
    <3>1. issued' \in [Enrollments -> 0 .. MaxGen]
      <4>1. 1 \in 0 .. MaxGen
        BY AuthAssumption
      <4> QED BY <1>2, <4>1, AuthFacts DEF TypeOK
    <3>2. grant' \in [Enrollments -> {"none", "waiting", "approved", "closed"}]
      BY <1>2, AuthFacts DEF TypeOK
    <3> QED BY <2>u, <3>1, <3>2, AuthFacts DEF TypeOK
  <2>2. /\ issued'[e] = 1 /\ \A x \in Enrollments \ {e} : issued'[x] = issued[x]
        /\ \A x \in Enrollments : issued[x] <= issued'[x]
    BY <1>f, <1>2, <2>z, AuthFacts, AuthAssumption DEF TypeOK
  <2>3. /\ pc' = [k \in Jobs |-> pc'[k]]
        /\ pc'[p] \in {"retry", "profile"}
        /\ \A k \in Jobs \ {p} : pc'[k] = pc[k]
    BY <1>f, <1>2, AuthFacts
  <2>4. \A i \in KnownTokens : i.id # e /\ i \in Installations /\ i.id \in Enrollments
    BY <2>z DEF KnownTokens, Installations
  <2>5. KnownTokens \subseteq KnownTokens'
    <3> SUFFICES ASSUME NEW i \in KnownTokens
                 PROVE  i \in KnownTokens'
      OBVIOUS
    <3>1. i.gen \in 1 .. issued'[i.id]
      BY <2>2, <2>4 DEF KnownTokens
    <3>2. \A q \in Polls : pc'[q] \in Redeemed => arg'[q] # i.id
      BY <2>3, <2>4, <2>u, AuthFacts DEF KnownTokens
    <3> QED BY <2>4, <3>1, <3>2 DEF KnownTokens
  <2>6. \A k \in Jobs : JobOK(k)'
    <3>1. \A k \in Jobs \ {p} : Kept(k)
      BY <2>3, <2>u DEF Kept
    <3>2. JobOK(p)'
      <4>1. pc'[p] \in Redeemed => p \in Polls /\ issued'[arg'[p]] >= 1
        BY <2>2, <2>u
      <4>2. /\ out'[p] = out[p] /\ waiting'[p] = waiting[p] /\ arg'[p] = arg[p]
            /\ pc[p] # "completing"
        BY <1>f, <2>u
      <4> QED BY <1>f, <2>3, <2>5, <4>1, <4>2
             DEF JobOK, Redeemed, Rotating, Saving, Using, Writing
    <3> QED BY <2>1, <2>2, <2>5, <3>1, <3>2, JobsStayOK
  <2>7. Stored'
    BY <2>5, <2>u DEF AuthInv, Stored
  <2>8. Grants'
    <3> SUFFICES ASSUME NEW x \in Enrollments, grant'[x] # "closed"
                 PROVE  issued'[x] = 0
      BY DEF Grants
    <3>1. x # e /\ grant'[x] = grant[x]
      BY <1>f, <1>2, AuthFacts DEF TypeOK
    <3> QED BY <2>2, <3>1 DEF AuthInv, Grants
  <2>9. Single'
    <3>1. ASSUME NEW q \in Polls, pc[q] \in Redeemed
          PROVE  arg[q] # e
      <4>1. issued[arg[q]] >= 1
        BY <3>1, AuthFacts DEF JobOK
      <4> QED BY <2>z, <4>1
    <3>2. \A q \in Polls \ {p} : pc'[q] = pc[q]
      BY <2>3, AuthFacts
    <3>3. \A q \in Flights : pc'[q] = pc[q]
      BY <1>f, <2>3, AuthFacts
    <3>4. \A q, r \in Polls :
            pc'[q] \in Redeemed /\ pc'[r] \in Redeemed /\ arg[q] = arg[r] => q = r
      BY <3>1, <3>2 DEF AuthInv, Single
    <3> QED BY <2>u, <3>3, <3>4 DEF AuthInv, Single
  <2> QED BY <2>1, <2>3, <2>6, <2>7, <2>8, <2>9 DEF AuthInv
<1>3. \/ /\ UNCHANGED <<grant, issued>>
         /\ Goto(p, "retry") \/ Goto(p, "schedule") \/ Goto(p, "clear")
      \/ /\ grant[e] = "approved"
         /\ grant' = [grant EXCEPT ![e] = "closed"]
         /\ issued' = [issued EXCEPT ![e] = 1]
         /\ Goto(p, "retry") \/ Goto(p, "profile")
  BY DEF PollAnswered
<1> QED BY <1>1, <1>2, <1>3 DEF Goto

LEMMA RefreshAcceptedKeepsInv ==
  ASSUME AuthInv, NEW f \in Flights, RefreshAccepted(f)
  PROVE  AuthInv'
<1> DEFINE spent == arg[f]
           next == [spent EXCEPT !.gen = @ + 1]
<1>f. /\ JobOK(f) /\ f \in Jobs /\ pc[f] = "refresh" /\ f \notin Polls
      /\ spent \in KnownTokens /\ spent \in Installations
  BY AuthFacts, AuthAssumption DEF RefreshAccepted, JobOK, Using
<1>i. spent.id \in Enrollments /\ spent.gen \in Nat
  BY <1>f DEF Installations
<1>n. next \in Installations /\ next.id = spent.id /\ next.gen = spent.gen + 1
  BY <1>f DEF Installations
<1>g. /\ spent.gen = issued[spent.id] /\ spent.gen >= 1 /\ spent.gen + 1 <= MaxGen
      /\ issued' = [issued EXCEPT ![spent.id] = @ + 1]
  <2>1. spent.gen \in 1 .. issued[spent.id]
    BY <1>f DEF KnownTokens
  <2> QED BY <1>i, <2>1, AuthAssumption DEF RefreshAccepted
<1>s. /\ issued' \in [Enrollments -> 0 .. MaxGen]
      /\ issued'[spent.id] = spent.gen + 1
      /\ \A x \in Enrollments \ {spent.id} : issued'[x] = issued[x]
      /\ \A x \in Enrollments : issued[x] \in Nat /\ issued[x] <= issued'[x]
  <2>1. spent.gen + 1 \in 0 .. MaxGen
    BY <1>i, <1>g, AuthAssumption
  <2>2. issued \in [Enrollments -> 0 .. MaxGen]
    BY AuthFacts DEF TypeOK
  <2> QED BY <1>i, <1>g, <2>1, <2>2, AuthAssumption
<1>u. /\ file' = file /\ out' = out /\ userOp' = userOp
      /\ controller' = controller /\ aborted' = aborted
      /\ prepared' = prepared /\ access' = access
      /\ compromised' = compromised /\ grant' = grant /\ late' = late
  BY DEF RefreshAccepted
<1>c. Grants'
  <2> SUFFICES ASSUME NEW x \in Enrollments, grant[x] # "closed"
               PROVE  issued'[x] = 0
    BY <1>u DEF Grants
  <2>1. issued[x] = 0
    BY DEF AuthInv, Grants
  <2>2. x # spent.id
    BY <1>g, <1>i, <2>1
  <2> QED BY <1>s, <2>1, <2>2
<1>1. CASE Goto(f, "rotate") /\ About(f, next) /\ UNCHANGED <<waiting, flight>>
  <2>1. TypeOK'
    BY <1>1, <1>n, <1>s, <1>u, AuthFacts DEF About, TypeOK
  <2>2. /\ pc' = [k \in Jobs |-> pc'[k]]
        /\ pc'[f] = "rotate" /\ arg'[f] = next
        /\ \A k \in Jobs \ {f} : pc'[k] = pc[k] /\ arg'[k] = arg[k]
    BY <1>1, <1>f, AuthFacts DEF Goto, About, TypeOK
  <2>3. \A q \in Polls : pc'[q] = pc[q] /\ arg'[q] = arg[q]
    BY <1>f, <2>2, AuthFacts
  <2>4. KnownTokens \subseteq KnownTokens'
    BY <1>s, <2>1, <2>3, AuthFacts, TokensStayKnown
  <2>5. next \in KnownTokens'
    <3>1. next.gen \in 1 .. issued'[next.id]
      BY <1>n, <1>g, <1>s, <1>i
    <3>2. \A q \in Polls : pc'[q] \in Redeemed => arg'[q] # next.id
      BY <1>f, <1>n, <2>3 DEF KnownTokens
    <3> QED BY <1>n, <3>1, <3>2 DEF KnownTokens
  <2>6. \A k \in Jobs : JobOK(k)'
    <3>1. \A k \in Jobs \ {f} : Kept(k)
      BY <1>1, <1>u, <2>2 DEF Kept
    <3>2. arg'[f].gen >= 2
      BY <1>n, <1>g, <1>i, <2>2
    <3>3. JobOK(f)'
      BY <1>f, <1>1, <1>u, <2>2, <2>4, <2>5, <3>2
         DEF JobOK, Redeemed, Rotating, Saving, Using, Writing
    <3> QED BY <1>s, <2>1, <2>4, <3>1, <3>3, JobsStayOK
  <2>7. Stored'
    BY <1>u, <2>4 DEF AuthInv, Stored
  <2>8. Single'
    <3>1. \A i \in KnownTokens : i # next
      <4> SUFFICES ASSUME NEW i \in KnownTokens, i = next
                   PROVE  FALSE
        OBVIOUS
      <4>1. next.gen \in 1 .. issued[next.id]
        BY DEF KnownTokens
      <4> QED BY <1>n, <1>g, <1>i, <4>1
    <3>2. \A g \in Flights : pc[g] \in Rotating => arg[g] # next
      BY <3>1, AuthFacts DEF JobOK
    <3>3. access # next
      BY <3>1, <1>n, EnrollmentsAssumption DEF AuthInv, Stored
    <3>4. \A g \in Flights \ {f} : pc'[g] = pc[g] /\ arg'[g] = arg[g]
      BY <2>2, AuthFacts
    <3>5. \A g, h \in Flights :
            pc'[g] \in Rotating /\ pc'[h] \in Rotating /\ arg'[g] = arg'[h] => g = h
      BY <2>2, <3>2, <3>4 DEF AuthInv, Single
    <3>6. \A g \in Flights : pc'[g] \in Rotating => arg'[g] # access'
      BY <1>u, <2>2, <3>3, <3>4 DEF AuthInv, Single
    <3>7. \A p, q \in Polls :
            pc'[p] \in Redeemed /\ pc'[q] \in Redeemed /\ arg'[p] = arg'[q] => p = q
      BY <2>3 DEF AuthInv, Single
    <3> QED BY <3>5, <3>6, <3>7 DEF Single
  <2> QED BY <1>c, <2>1, <2>2, <2>6, <2>7, <2>8 DEF AuthInv
<1>2. CASE Settled(f, FALSE)
  <2>1. /\ pc' = [k \in Jobs |-> pc'[k]]
        /\ arg' \in [Jobs -> Enrollments \cup Installations \cup {None}]
        /\ waiting' \in [Jobs -> Flights \cup {None}]
        /\ flight' = None
        /\ \A k \in Jobs : Kept(k) \/ Moves(k)
    BY <1>2, <1>f, <1>u, AuthFacts, SettledMoves DEF TypeOK
  <2>2. TypeOK'
    BY <1>s, <1>u, <2>1, AuthFacts DEF TypeOK
  <2>r. \A k \in Jobs :
          /\ pc'[k] \in Redeemed => pc[k] \in Redeemed /\ arg'[k] = arg[k]
          /\ pc'[k] \in Rotating => pc[k] \in Rotating /\ arg'[k] = arg[k]
    BY <2>1 DEF Kept, Moves
  <2>3. KnownTokens \subseteq KnownTokens'
    BY <1>s, <2>2, <2>r, AuthFacts, TokensStayKnown
  <2>4. \A k \in Jobs : JobOK(k)'
    BY <1>s, <2>1, <2>2, <2>3, JobsStayOK
  <2>5. Stored'
    BY <1>u, <2>3 DEF AuthInv, Stored
  <2>6. Single'
    BY <1>u, <2>r, AuthFacts DEF AuthInv, Single
  <2> QED BY <1>c, <2>1, <2>2, <2>4, <2>5, <2>6 DEF AuthInv
<1> QED BY <1>1, <1>2 DEF RefreshAccepted

LEMMA CompletedKeepsInv ==
  ASSUME AuthInv, NEW p \in Polls, Completed(p)
  PROVE  AuthInv'
<1> DEFINE first == [id |-> arg[p], gen |-> 1]
<1>f. /\ JobOK(p) /\ p \in Jobs /\ pc[p] = "completing" /\ arg[p] \in Enrollments
      /\ p \notin Flights
  BY AuthFacts, AuthAssumption DEF Completed, JobOK
<1>o. /\ out[p] \in Configurations /\ out[p] # None /\ Coherent(out[p])
      /\ out[p].inst \in KnownTokens \cup {None, first}
  <2>1. out[p] # None
    BY <1>f DEF JobOK, Writing
  <2> QED BY <1>f, <2>1, AuthFacts DEF TypeOK, JobOK
<1>n. first \in Installations /\ first.id = arg[p] /\ first.gen = 1
  BY <1>f DEF Installations
<1>u. /\ file' = out[p] /\ out' = [out EXCEPT ![p] = None] /\ userOp' = userOp
      /\ waiting' = waiting /\ prepared' = prepared /\ access' = first
      /\ flight' = flight /\ compromised' = FALSE
      /\ grant' = grant /\ issued' = issued /\ late' = late
  BY DEF Completed, Replace, server
<1>1. TypeOK'
  BY <1>f, <1>o, <1>n, <1>u, AuthFacts DEF Completed, Ended, About, TypeOK
<1>2. /\ pc' = [k \in Jobs |-> pc'[k]]
      /\ pc'[p] = "idle" /\ out'[p] = None
      /\ \A k \in Jobs \ {p} : pc'[k] = pc[k] /\ arg'[k] = arg[k] /\ out'[k] = out[k]
  BY <1>f, <1>u, AuthFacts DEF Completed, Ended, About, TypeOK
<1>3. Moves(p) /\ \A k \in Jobs \ {p} : Kept(k)
  BY <1>f, <1>u, <1>2 DEF Moves, Kept, JobOK, Redeemed, Rotating, Saving, Using, Writing
<1>g. \A x \in Enrollments : issued[x] <= issued'[x]
  BY <1>u, AuthAssumption, AuthFacts DEF TypeOK
<1>r. \A k \in Jobs :
        /\ pc'[k] \in Redeemed => pc[k] \in Redeemed /\ arg'[k] = arg[k] /\ k # p
        /\ pc'[k] \in Rotating => pc[k] \in Rotating /\ arg'[k] = arg[k]
  BY <1>2 DEF Redeemed, Rotating
<1>4. KnownTokens \subseteq KnownTokens'
  BY <1>1, <1>g, <1>r, AuthFacts, TokensStayKnown
<1>5. \A k \in Jobs : JobOK(k)'
  BY <1>1, <1>3, <1>4, <1>g, JobsStayOK
<1>6. first \in KnownTokens'
  <2>1. first.gen \in 1 .. issued'[first.id]
    <3>1. issued[arg[p]] >= 1
      BY <1>f DEF JobOK, Redeemed
    <3>2. issued[arg[p]] \in Nat
      BY <1>f, AuthAssumption, AuthFacts DEF TypeOK
    <3> QED BY <1>n, <1>u, <3>1, <3>2
  <2>2. \A q \in Polls : pc'[q] \in Redeemed => arg'[q] # first.id
    BY <1>f, <1>n, <1>r, AuthFacts DEF AuthInv, Single, Redeemed
  <2> QED BY <1>n, <2>1, <2>2 DEF KnownTokens
<1>7. Stored'
  BY <1>o, <1>u, <1>4, <1>6 DEF AuthInv, Stored
<1>8. Grants'
  BY <1>u DEF AuthInv, Grants
<1>9. Single'
  <2>1. \A q \in Flights : pc'[q] \in Rotating => arg'[q] # access'
    <3> SUFFICES ASSUME NEW q \in Flights, pc'[q] \in Rotating
                 PROVE  arg'[q] # first
      BY <1>u
    <3>1. arg'[q] = arg[q] /\ arg[q].gen >= 2
      BY <1>r, AuthFacts DEF JobOK
    <3> QED BY <1>n, <3>1
  <2> QED BY <1>r, <2>1, AuthFacts DEF AuthInv, Single
<1> QED BY <1>1, <1>2, <1>5, <1>7, <1>8, <1>9 DEF AuthInv

LEMMA RotatedKeepsInv ==
  ASSUME AuthInv, NEW f \in Flights, Rotated(f)
  PROVE  AuthInv'
<1>f. /\ JobOK(f) /\ f \in Jobs /\ pc[f] = "rotating" /\ f \notin Polls
      /\ arg[f] \in KnownTokens /\ arg[f] \in Installations
  BY AuthFacts, AuthAssumption DEF Rotated, JobOK, Rotating
<1>o. /\ out[f] \in Configurations /\ out[f] # None /\ Coherent(out[f])
      /\ out[f].inst \in KnownTokens \cup {None}
  <2>1. out[f] # None
    BY <1>f DEF JobOK, Writing
  <2> QED BY <1>f, <2>1, AuthFacts DEF TypeOK, JobOK
<1>u. /\ file' = out[f] /\ out' = [out EXCEPT ![f] = None] /\ userOp' = userOp
      /\ controller' = controller /\ aborted' = aborted /\ prepared' = prepared
      /\ access' = arg[f] /\ compromised' = compromised
      /\ grant' = grant /\ issued' = issued /\ late' = late
  BY DEF Rotated, Replace, server
<1>1. /\ pc' = [k \in Jobs |-> pc'[k]] /\ pc'[f] = "idle"
      /\ arg' \in [Jobs -> Enrollments \cup Installations \cup {None}]
      /\ waiting' \in [Jobs -> Flights \cup {None}]
      /\ flight' = None
      /\ \A k \in Jobs : Kept(k) \/ Moves(k)
  <2>1. Settled(f, TRUE)
    BY DEF Rotated
  <2>2. /\ out' \in [Jobs -> Configurations \cup {None}]
        /\ \A k \in Jobs : out'[k] = out[k] \/ (k = f /\ out'[k] = None)
    BY <1>u, AuthFacts DEF TypeOK
  <2>3. pc'[f] = "idle"
    BY <1>f, <2>1 DEF Settled
  <2> QED BY <1>f, <2>1, <2>2, <2>3, SettledMoves
<1>2. TypeOK'
  BY <1>f, <1>o, <1>u, <1>1, AuthFacts DEF TypeOK
<1>g. \A x \in Enrollments : issued[x] <= issued'[x]
  BY <1>u, AuthAssumption, AuthFacts DEF TypeOK
<1>r. \A k \in Jobs :
        /\ pc'[k] \in Redeemed => pc[k] \in Redeemed /\ arg'[k] = arg[k]
        /\ pc'[k] \in Rotating => pc[k] \in Rotating /\ arg'[k] = arg[k] /\ k # f
  BY <1>1 DEF Kept, Moves, Rotating
<1>3. KnownTokens \subseteq KnownTokens'
  BY <1>2, <1>g, <1>r, AuthFacts, TokensStayKnown
<1>4. \A k \in Jobs : JobOK(k)'
  BY <1>1, <1>2, <1>3, <1>g, JobsStayOK
<1>5. Stored'
  BY <1>f, <1>o, <1>u, <1>3 DEF AuthInv, Stored
<1>6. Grants'
  BY <1>u DEF AuthInv, Grants
<1>7. Single'
  <2>1. \A g \in Flights : pc'[g] \in Rotating => arg'[g] # access'
    BY <1>f, <1>r, <1>u, AuthFacts DEF AuthInv, Single, Rotating
  <2> QED BY <1>r, <2>1, AuthFacts DEF AuthInv, Single
<1> QED BY <1>1, <1>2, <1>4, <1>5, <1>6, <1>7 DEF AuthInv

-----------------------------------------------------------------------------
LEMMA InitAuthInv == Init => AuthInv
<1> SUFFICES ASSUME Init
             PROVE  AuthInv
  OBVIOUS
<1>1. /\ file \in Configurations /\ file.inst = None
      /\ file.token <=> file.mode \in {"custom_bearer", "legacy_hosted"}
      /\ file.mode = "installation" <=> (file.inst # None \/ file.pend # None)
      /\ file.metadata = "none" <=> file.inst = None
  <2>1. CASE file = Empty
    BY <2>1 DEF Empty, Configurations, Modes
  <2>2. CASE file = Legacy(TRUE)
    BY <2>2 DEF Legacy, Empty, Configurations, Modes
  <2>3. CASE file = Legacy(FALSE)
    BY <2>3 DEF Legacy, Empty, Configurations, Modes
  <2> QED BY <2>1, <2>2, <2>3 DEF Init
<1>2. Coherent(file)
  BY <1>1, StartableIsTold
<1>3. TypeOK
  <2>1. 0 \in 0 .. MaxGen
    BY AuthAssumption
  <2> QED BY <1>1, <2>1 DEF Init, TypeOK
<1>4. \A j \in Jobs : JobOK(j)
  BY DEF Init, JobOK, Redeemed, Rotating, Saving, Using, Writing
<1>5. Single
  BY DEF Init, Single, Redeemed, Rotating, Jobs
<1> QED BY <1>1, <1>2, <1>3, <1>4, <1>5 DEF Init, AuthInv, Stored, Grants

LEMMA StepAuthInv == AuthInv /\ [Next]_vars => AuthInv'
<1> SUFFICES ASSUME AuthInv, [Next]_vars
             PROVE  AuthInv'
  OBVIOUS
<1>1. ASSUME NEW j \in Jobs, Goes(j)
      PROVE  AuthInv'
  <2>1. \/ Clear(j) \/ Cleared(j) \/ ClearFails(j) \/ Cancel(j)
        \/ Save(j) \/ Saved(j) \/ SaveFails(j) \/ EnsureAccess(j)
        \/ Mark(j) \/ Marked(j) \/ Wipe(j) \/ Wiped(j)
        \/ Create \/ StatusLooks \/ SignOutReads \/ Revoke
        \/ Answered \/ Note \/ Noted \/ Touched
        => QuietStep
    BY ClearQuiet, ClearedQuiet, ClearFailsQuiet, CancelQuiet, SaveQuiet, SavedQuiet,
       SaveFailsQuiet, EnsureAccessQuiet, MarkQuiet, MarkedQuiet, WipeQuiet, WipedQuiet,
       CreateQuiet, StatusLooksQuiet, SignOutReadsQuiet, RevokeQuiet, AnsweredQuiet,
       NoteQuiet, NotedQuiet, TouchedQuiet, Zenon
  <2>2. ASSUME j \in Polls, Poll(j)
        PROVE  AuthInv'
    BY <2>2, PollWakesQuiet, PollAnsweredKeepsInv, PollProfiledQuiet, CompleteQuiet,
       CompletedKeepsInv, CompleteFailsQuiet, QuietStepKeepsInv, Zenon DEF Poll
  <2>3. ASSUME j \in Flights, Refresh(j)
        PROVE  AuthInv'
    BY <2>3, RefreshAcceptedKeepsInv, RefreshUnsentQuiet, RefreshRefusedQuiet,
       RotateReadsQuiet, RotatedKeepsInv, RotateFailsQuiet, QuietStepKeepsInv, Zenon
       DEF Refresh
  <2> QED BY <1>1, <2>1, <2>2, <2>3, QuietStepKeepsInv, Zenon DEF Goes
<1>2. CASE Begins
  BY <1>2, UserBeginsQuiet, ContinueBeginsQuiet, StatusBeginsQuiet, RequestBeginsQuiet,
     TouchBeginsQuiet, QuietStepKeepsInv, Zenon DEF Begins
<1>3. CASE Environment
  BY <1>3, EnvironmentQuiet, QuietStepKeepsInv
<1>4. CASE UNCHANGED vars
  <2>1. QuietStep
    <3>1. TypeOK'
      BY <1>4, AuthFacts DEF vars, job, memory, server, TypeOK
    <3> QED BY <1>4, <3>1, AuthFacts DEF vars, job, memory, server, QuietStep, Kept
  <2> QED BY <2>1, QuietStepKeepsInv
<1> QED BY <1>1, <1>2, <1>3, <1>4 DEF Next

LEMMA AuthInvSuffices == AuthInv => StoreAndAccessAgree
<1> SUFFICES ASSUME AuthInv
             PROVE  StoreAndAccessAgree
  OBVIOUS
<1>1. FileCoherent
  BY DEF AuthInv, Stored, JobOK, FileCoherent
<1>2. AccessIsStored
  <2> SUFFICES ASSUME access # None
               PROVE  AccessIsStored
    BY DEF AccessIsStored
  <2>1. \A f \in Flights : pc[f] \in {"rotate", "rotating"} => arg[f] # access
    BY DEF AuthInv, Single, Rotating
  <2>2. \A p \in Polls : pc[p] \in {"profile", "complete", "completing"}
                           => arg[p] # access.id
    BY DEF AuthInv, Stored, KnownTokens, Redeemed
  <2> QED BY <2>1, <2>2 DEF AccessIsStored
<1> QED BY <1>1, <1>2 DEF AuthInv, StoreAndAccessAgree

\* Whatever operations overlap, whichever write fails and wherever the application
\* ends: the configuration on disk and every one about to be written tell one story,
\* and the access token in use is never ahead of the refresh token on disk
\* (InstallationAuthManager, ConfigurationStore).
THEOREM StoreAgrees == Spec => []StoreAndAccessAgree
<1>1. Init => AuthInv
  BY InitAuthInv
<1>2. AuthInv /\ [Next]_vars => AuthInv'
  BY StepAuthInv
<1>3. AuthInv => StoreAndAccessAgree
  BY AuthInvSuffices
<1> QED BY <1>1, <1>2, <1>3, PTL DEF Spec
=============================================================================
