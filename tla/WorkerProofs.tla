----------------------------- MODULE WorkerProofs -----------------------------
(***************************************************************************)
(* Proofs about what a turn works with.  Of the presence gate, for every   *)
(* length of the minute and whatever the delays: nothing new is begun past *)
(* its end, and the gate and the supervisor agree on the prompt that is    *)
(* shown.  Of the chats, however many there are: delegation is one level   *)
(* deep, and no turn goes on of a chat that was deleted.  Of dependencies, *)
(* however often they are proposed: a proposal is applied in both files or *)
(* in neither, and edits of the user survive it.  Of Git, for any chats    *)
(* and branches: an operation makes what its review showed.  Of            *)
(* installation, whatever the versions: an application that was installed  *)
(* stays.                                                                  *)
(*                                                                         *)
(* For the first, the inductive invariant ties the history of active work  *)
(* to what the gate has left of the minute, and the pauses to the waits    *)
(* for approvals: a paused gate holds nobody back, so that no boundary may *)
(* be reached while it is paused.  For the second, it says what every      *)
(* message on its way between the two processes stands for.  For the chats *)
(* it says of every function that tells who was delegated that it gives    *)
(* the right to delegate to nobody, and that there is such a function.     *)
(* For the files, that what a proposal makes is new, and is only found, in *)
(* a file or where one was read, when it has been applied or cut in two,   *)
(* or in package.json while it is applied.  For Git, that an operation     *)
(* that was checked and not raced still fits the repository.  For the      *)
(* installer, what the files say of each other while an update is to be    *)
(* confirmed, and what the step a launcher is at rests on.                 *)
(***************************************************************************)
EXTENDS MCWorker, FiniteSetTheorems, SequenceTheorems, TLAPS

\* What is counted, and the switches the count depends on.
CounterTypes ==
  /\ on \in BOOLEAN /\ paused \in BOOLEAN /\ stopped \in BOOLEAN
  /\ prompts \in Nat /\ pending \in Nat
  /\ left \in 0..Limit /\ worked \in 0..(Limit + 1)

\* The gate is paused only while an approval is awaited or its promise resolved.
PausedForApproval == paused => agent \in {"asking", "decided"}
\* The gate has its task until the session is stopped or over.
GateOpenUntilEnd == ~on => stopped \/ agent = "over"
\* Work done and time left make up the minute.
MinuteIsCounted == on /\ pending = 0 /\ left > 0 => worked + left <= Limit

MinuteInv == CounterTypes /\ PausedForApproval /\ GateOpenUntilEnd /\ MinuteIsCounted

-----------------------------------------------------------------------------
\* A new task has the whole minute.
LEMMA InitMinute == Init => MinuteInv
<1> SUFFICES ASSUME Init PROVE MinuteInv
  OBVIOUS
<1>1. /\ on \in BOOLEAN /\ paused \in BOOLEAN /\ stopped \in BOOLEAN
      /\ prompts \in Nat /\ pending \in Nat
  BY DEF Init
<1>2. left \in 0..Limit /\ worked \in 0..(Limit + 1) /\ worked + left <= Limit
  BY PresenceAssumption DEF Init
<1>3. PausedForApproval /\ GateOpenUntilEnd
  BY DEF Init, PausedForApproval, GateOpenUntilEnd
<1> QED
  BY <1>1, <1>2, <1>3 DEF MinuteInv, CounterTypes, MinuteIsCounted

\* check() at the beginning of an operation issues a prompt only when nothing is
\* left, and leaves what is counted alone.
LEMMA CheckKeepsMinute ==
  ASSUME MinuteInv, pending' = Prompt, Issued, UNCHANGED <<on, left, worked>>
  PROVE  prompts' \in Nat /\ pending' \in Nat /\ MinuteIsCounted'
<1>1. CASE Overdue
  BY <1>1 DEF Overdue, Counting, Prompt, Issued, MinuteInv, CounterTypes, MinuteIsCounted
<1>2. CASE ~Overdue
  BY <1>2 DEF Prompt, Issued, MinuteInv, CounterTypes, MinuteIsCounted
<1> QED
  BY <1>1, <1>2

\* Every step of the gate, the session, the supervisor and the clock keeps the
\* count of the minute.
LEMMA StepMinute == MinuteInv /\ [Next]_vars => MinuteInv'
<1> SUFFICES ASSUME MinuteInv, [Next]_vars PROVE MinuteInv'
  OBVIOUS
<1> USE DEF MinuteInv
<1>1. CASE Tick
  <2>1. CASE Counting /\ (left > 1 \/ prompts < MaxPrompts)
    <3>1. left' = (IF left = 0 THEN 0 ELSE left - 1)
          /\ worked' = (IF worked > Limit THEN worked ELSE worked + 1)
      BY <1>1, <2>1 DEF Tick
    <3>2. UNCHANGED <<on, pending, paused, prompts, agent, stopped>>
      BY <1>1 DEF Tick, session
    <3>3. CounterTypes'
      BY <3>1, <3>2, PresenceAssumption DEF CounterTypes
    <3>4. MinuteIsCounted'
      BY <3>1, <3>2, PresenceAssumption DEF CounterTypes, MinuteIsCounted
    <3> QED
      BY <3>2, <3>3, <3>4 DEF PausedForApproval, GateOpenUntilEnd
  <2>2. CASE ~(Counting /\ (left > 1 \/ prompts < MaxPrompts))
    BY <1>1, <2>2
       DEF Tick, session, CounterTypes, PausedForApproval, GateOpenUntilEnd, MinuteIsCounted
  <2> QED
    BY <2>1, <2>2
<1>2. CASE TimerFires \/ TakesInput
  BY <1>2, CheckKeepsMinute
     DEF TimerFires, TakesInput, session, CounterTypes, PausedForApproval, GateOpenUntilEnd
<1>3. CASE Boundary
  BY <1>3, CheckKeepsMinute
     DEF Boundary, CounterTypes, PausedForApproval, GateOpenUntilEnd
<1>4. CASE Proceeds
  BY <1>4
     DEF Proceeds, gate, CounterTypes, PausedForApproval, GateOpenUntilEnd, MinuteIsCounted
<1>5. CASE Asks
  BY <1>5, CheckKeepsMinute
     DEF Asks, CounterTypes, PausedForApproval, GateOpenUntilEnd
<1>6. CASE Resumes
  BY <1>6
     DEF Resumes, CounterTypes, PausedForApproval, GateOpenUntilEnd, MinuteIsCounted
<1>7. CASE Ends
  BY <1>7
     DEF Ends, CounterTypes, PausedForApproval, GateOpenUntilEnd, MinuteIsCounted
<1>8. CASE Acknowledges
  <2>1. CASE pending # 0 /\ pending = Head(post).of /\ sinceIssue >= Hold
    BY <1>8, <2>1, PresenceAssumption
       DEF Acknowledges, CounterTypes, PausedForApproval, GateOpenUntilEnd, MinuteIsCounted
  <2>2. CASE ~(pending # 0 /\ pending = Head(post).of /\ sinceIssue >= Hold)
    BY <1>8, <2>2, CheckKeepsMinute
       DEF Acknowledges, CounterTypes, PausedForApproval, GateOpenUntilEnd
  <2> QED
    BY <2>1, <2>2
<1>9. CASE TakesDecision
  BY <1>9, CheckKeepsMinute
     DEF TakesDecision, CounterTypes, PausedForApproval, GateOpenUntilEnd
<1>10. CASE Stops
  BY <1>10
     DEF Stops, CounterTypes, PausedForApproval, GateOpenUntilEnd, MinuteIsCounted
<1>11. CASE Hears \/ AcknowledgePresence \/ Input \/ Stop
            \/ \E a \in 1..MaxApprovals : ResolveApproval(a)
  BY <1>11
     DEF Hears, AcknowledgePresence, Input, Stop, ResolveApproval, gate, session,
         CounterTypes, PausedForApproval, GateOpenUntilEnd, MinuteIsCounted
<1>12. CASE UNCHANGED vars
  BY <1>12
     DEF vars, gate, session, CounterTypes, PausedForApproval, GateOpenUntilEnd,
         MinuteIsCounted
<1> QED
  BY <1>1, <1>2, <1>3, <1>4, <1>5, <1>6, <1>7, <1>8, <1>9, <1>10, <1>11, <1>12 DEF Next

\* A boundary lets pass only what is within the minute.
LEMMA BoundaryWithinMinute ==
  ASSUME MinuteInv, Next, agent # "passed", agent' = "passed"
  PROVE  worked < Limit
<1>1. Boundary
  BY DEF Next, Tick, TimerFires, Proceeds, Asks, Resumes, Ends, Acknowledges, TakesDecision,
         TakesInput, Stops, Hears, AcknowledgePresence, Input, Stop, ResolveApproval, session
<1>2. Prompt = 0 /\ ~stopped /\ agent \in {"working", "blocked"}
  BY <1>1 DEF Boundary
<1>3. on /\ ~paused
  BY <1>2 DEF MinuteInv, PausedForApproval, GateOpenUntilEnd, CounterTypes
<1>4. ~Overdue /\ pending = 0
  BY <1>2 DEF Prompt, MinuteInv, CounterTypes
<1>5. left > 0
  BY <1>3, <1>4, PresenceAssumption DEF Overdue, Counting, MinuteInv, CounterTypes
<1> QED
  BY <1>3, <1>4, <1>5, PresenceAssumption DEF MinuteInv, CounterTypes, MinuteIsCounted

\* No request, tool, operation, compaction or approval is begun after a minute of
\* active work without an acknowledgement, for any length of the minute and any
\* number of prompts and approvals.
THEOREM NothingBegunPastDeadline == Spec => NoWorkPastDeadline
<1>1. MinuteInv /\ [Next]_vars => [agent # "passed" /\ agent' = "passed" => worked < Limit]_vars
  BY BoundaryWithinMinute DEF vars, session
<1> QED
  BY <1>1, InitMinute, StepMinute, PTL DEF Spec, NoWorkPastDeadline

-----------------------------------------------------------------------------
(* What is on its way between the gate and the supervisor                   *)

MailMessages ==
  [type : {"attention_required", "presence.cleared", "approval.request", "end"}, of : Nat]
PostMessages == [type : {"presence-ack", "approval", "input", "stop"}, of : Nat]

InMail == 1..Len(mail)
InPost == 1..Len(post)
Prompted(i) == mail[i].type = "attention_required"
Lifted(i) == mail[i].type = "presence.cleared"
Requested(i) == mail[i].type = "approval.request"
Ended(i) == mail[i].type = "end"
\* The child gets to the message before it is stopped.
Reached(i) == \A j \in InPost : j < i => post[j].type # "stop"
Acked(i) == post[i].type = "presence-ack" /\ Reached(i)
Decided(i) == post[i].type = "approval" /\ Reached(i)

\* The types of the session, and of the messages with what they are about.
SessionTypes ==
  /\ TypeOK
  /\ mail \in Seq(MailMessages) /\ post \in Seq(PostMessages)
  /\ \A i \in InMail : /\ Prompted(i) => mail[i].of \in 1..prompts
                       /\ Lifted(i) => mail[i].of = 0
                       /\ Requested(i) => mail[i].of \in 1..asked
  /\ on /\ pending = 0 /\ left = 0 => prompts < MaxPrompts

\* A gate with a task is that of a turn that goes on, and waits while an approval
\* is asked for; a gate without one prompts nobody.
GateLives ==
  /\ on => current /\ ~stopped /\ agent # "over" /\ \A i \in InMail : ~Ended(i)
  /\ ~on => pending = 0 /\ (stopped \/ agent = "over")
  /\ paused => agent \in {"asking", "decided"}
  /\ on /\ agent = "asking" => paused

\* Once the supervisor has heard what is on its way, its copy is the gate's prompt.
CopyFollows ==
  current /\ (\A i \in InMail : ~Ended(i)) =>
    /\ (\A i \in InMail : ~Prompted(i) /\ ~Lifted(i)) => seen = pending
    /\ \A i \in InMail :
         /\ Prompted(i) \/ Lifted(i)
         /\ \A j \in InMail : j > i => ~Prompted(j) /\ ~Lifted(j)
         => pending = mail[i].of

\* Of the gate's prompts at most the last is unknown to the supervisor, and the
\* end of at most one before it, which then is the one it has acknowledged.
PromptsFollow == on =>
  /\ \A i \in InMail : Prompted(i) => mail[i].of = pending /\ (seen = 0 \/ acknowledged)
  /\ \A i \in InMail : Lifted(i) => acknowledged /\ seen # pending
  /\ \A i, j \in InMail : Prompted(i) /\ (Prompted(j) \/ Lifted(j)) => j <= i
  /\ \A i, j \in InMail : Lifted(i) /\ Lifted(j) => i = j
  /\ seen # 0 /\ ~acknowledged => seen = pending
  /\ pending # 0 => seen = pending \/ \E i \in InMail : Prompted(i)
  /\ seen # 0 /\ seen = pending => sinceSeen <= sinceIssue

\* One acknowledgement is on its way at most, of the prompt both know.
AcksFollow == on =>
  /\ \A i \in InPost : Acked(i) =>
       /\ acknowledged /\ seen = pending /\ post[i].of = pending /\ sinceIssue >= Hold
       /\ \A j \in InMail : ~Prompted(j) /\ ~Lifted(j)
  /\ \A i, j \in InPost : Acked(i) /\ Acked(j) => i = j

\* The approval the agent waits for is the only one that is requested or pending,
\* and no prompt comes after the request.
RequestsFollow ==
  /\ agent = "asking" => asked \in 1..MaxApprovals
  /\ \A a \in 1..MaxApprovals : a > asked => row[a] = "none"
  /\ ~stopped =>
     /\ \A a \in 1..MaxApprovals : row[a] = "pending" => agent = "asking" /\ asked = a
     /\ \A i \in InMail : Requested(i) =>
          /\ agent = "asking" /\ mail[i].of = asked /\ row[asked] = "none"
          /\ \A j \in InMail : Prompted(j) => j < i
          /\ \A j \in InMail : Requested(j) => j = i
     /\ agent = "asking" /\ row[asked] # "none" => \A j \in InMail : ~Prompted(j)

\* One decision is on its way at most, of the approval the agent waits for.
DecisionsFollow == ~stopped =>
  /\ \A i \in InPost : Decided(i) =>
       agent = "asking" /\ post[i].of = asked /\ row[asked] = "decided" /\ pending = 0
  /\ \A i, j \in InPost : Decided(i) /\ Decided(j) => i = j

SessionInv ==
  /\ SessionTypes /\ GateLives /\ CopyFollows /\ PromptsFollow
  /\ AcksFollow /\ RequestsFollow /\ DecisionsFollow

\* What the two processes agree on follows from the strengthening.
LEMMA SessionInvAgrees == SessionInv => SessionAgrees
<1> SUFFICES ASSUME SessionInv PROVE SessionAgrees
  OBVIOUS
<1>1. TypeOK
  BY DEF SessionInv, SessionTypes
<1>2. \A i \in InPost : ~Reached(i) => \E j \in 1..(i - 1) : post[j].type = "stop"
  BY <1>1 DEF SessionInv, SessionTypes, InPost, Reached
<1>3. DecisionInFlightIsAwaited
  <2>1. ASSUME NEW i \in InPost, Decided(i), ~stopped
        PROVE  agent = "asking" /\ asked = post[i].of /\ Prompt = 0
    <3>1. agent = "asking" /\ asked = post[i].of /\ pending = 0
      BY <2>1 DEF SessionInv, DecisionsFollow
    <3>2. ~Counting
      BY <3>1, <2>1 DEF SessionInv, GateLives, Counting
    <3> QED
      BY <3>1, <3>2 DEF Prompt, Overdue
  <2> QED
    BY <2>1, <1>2 DEF DecisionInFlightIsAwaited, Decided, InPost
<1>4. AckInFlightIsAccepted
  <2>1. ASSUME NEW i \in InPost, Acked(i), on
        PROVE  pending = post[i].of /\ sinceIssue >= Hold
    BY <2>1 DEF SessionInv, AcksFollow
  <2> QED
    BY <2>1, <1>2 DEF AckInFlightIsAccepted, Acked, InPost
<1>5. CopiesAgree
  <2> SUFFICES ASSUME mail = <<>>, current PROVE seen = pending
    BY DEF CopiesAgree
  <2>1. InMail = {}
    BY DEF InMail
  <2> QED
    BY <2>1 DEF SessionInv, CopyFollows
<1> QED
  BY <1>1, <1>3, <1>4, <1>5 DEF SessionAgrees

-----------------------------------------------------------------------------
(* The two channels: what a message changes that is added, or taken         *)

LEMMA MailGrows ==
  ASSUME mail \in Seq(MailMessages), NEW m \in MailMessages, mail' = Append(mail, m)
  PROVE  /\ mail' \in Seq(MailMessages)
         /\ InMail' = InMail \cup {Len(mail) + 1}
         /\ \A i \in InMail : i \in Nat /\ i < Len(mail) + 1 /\ mail'[i] = mail[i]
         /\ Len(mail) + 1 \in Nat /\ mail'[Len(mail) + 1] = m
  BY DEF InMail

LEMMA MailShrinks ==
  ASSUME mail \in Seq(MailMessages), mail # <<>>, mail' = Tail(mail)
  PROVE  /\ mail' \in Seq(MailMessages)
         /\ 1 \in InMail /\ Head(mail) = mail[1] /\ mail[1] \in MailMessages
         /\ \A i \in InMail' : i \in Nat /\ i + 1 \in InMail /\ mail'[i] = mail[i + 1]
         /\ \A i \in InMail : i \in Nat /\ (i = 1 \/ (i - 1 \in InMail' /\ mail'[i - 1] = mail[i]))
  BY DEF InMail

LEMMA PostGrows ==
  ASSUME post \in Seq(PostMessages), NEW m \in PostMessages, post' = Append(post, m),
         Len(post) < MaxPost
  PROVE  /\ post' \in Seq(PostMessages) /\ Len(post') <= MaxPost
         /\ InPost' = InPost \cup {Len(post) + 1}
         /\ \A i \in InPost : /\ i \in Nat /\ i < Len(post) + 1 /\ post'[i] = post[i]
                              /\ Reached(i)' <=> Reached(i)
         /\ Len(post) + 1 \in Nat /\ post'[Len(post) + 1] = m
         /\ \A n : n = Len(post) + 1 =>
              (Reached(n)' <=> \A j \in InPost : post[j].type # "stop")
<1>1. /\ post' \in Seq(PostMessages) /\ Len(post') <= MaxPost
      /\ InPost' = InPost \cup {Len(post) + 1}
      /\ \A i \in InPost : i \in Nat /\ i < Len(post) + 1 /\ post'[i] = post[i]
      /\ Len(post) + 1 \in Nat /\ post'[Len(post) + 1] = m
  BY PresenceAssumption DEF InPost
<1>2. ASSUME NEW i \in InPost PROVE Reached(i)' <=> Reached(i)
  <2>1. \A j \in InPost' : j < i => j \in InPost
    BY <1>1
  <2> QED
    BY <2>1, <1>1 DEF Reached
<1>3. ASSUME NEW n, n = Len(post) + 1
      PROVE  Reached(n)' <=> \A j \in InPost : post[j].type # "stop"
  <2>1. \A j \in InPost' : j < n <=> j \in InPost
    BY <1>1, <1>3
  <2> QED
    BY <2>1, <1>1 DEF Reached
<1> QED
  BY <1>1, <1>2, <1>3

LEMMA PostShrinks ==
  ASSUME post \in Seq(PostMessages), post # <<>>, post' = Tail(post), Len(post) <= MaxPost
  PROVE  /\ post' \in Seq(PostMessages) /\ Len(post') <= MaxPost
         /\ 1 \in InPost /\ Head(post) = post[1] /\ Reached(1)
         /\ \A i \in InPost' : i \in Nat /\ i + 1 \in InPost /\ post'[i] = post[i + 1]
         /\ Head(post).type # "stop" => \A i \in InPost' : Reached(i)' => Reached(i + 1)
<1>1. /\ post' \in Seq(PostMessages) /\ Len(post') <= MaxPost
      /\ 1 \in InPost /\ Head(post) = post[1]
      /\ \A i \in InPost' : i \in Nat /\ i + 1 \in InPost /\ post'[i] = post[i + 1]
      /\ \A i \in InPost : i \in Nat /\ (i = 1 \/ (i - 1 \in InPost' /\ post'[i - 1] = post[i]))
  BY PresenceAssumption DEF InPost
<1>2. Reached(1)
  BY DEF Reached, InPost
<1>3. ASSUME Head(post).type # "stop", NEW i \in InPost', Reached(i)'
      PROVE  Reached(i + 1)
  <2>1. ASSUME NEW j \in InPost, j < i + 1 PROVE post[j].type # "stop"
    <3>1. CASE j = 1
      BY <3>1, <1>1, <1>3
    <3>2. CASE j # 1
      <4>1. j - 1 \in InPost' /\ post'[j - 1] = post[j] /\ j \in Nat /\ i \in Nat
        BY <3>2, <1>1
      <4>2. j - 1 < i
        BY <4>1, <2>1
      <4> QED
        BY <4>1, <4>2, <1>3 DEF Reached
    <3> QED
      BY <3>1, <3>2
  <2> QED
    BY <2>1 DEF Reached
<1> QED
  BY <1>1, <1>2, <1>3

-----------------------------------------------------------------------------
(* The steps                                                                *)

LEMMA InitSession == Init => SessionInv
<1> SUFFICES ASSUME Init PROVE SessionInv
  OBVIOUS
<1>1. mail = <<>> /\ post = <<>> /\ InMail = {} /\ InPost = {}
  BY DEF Init, InMail, InPost
<1>2. SessionTypes
  <2>1. row \in [1..MaxApprovals -> {"none", "pending", "decided", "denied"}]
    BY DEF Init
  <2>2. TypeOK
    <3>1. /\ left \in 0..Limit /\ worked \in 0..(Limit + 1)
          /\ sinceIssue \in 0..Hold /\ sinceSeen \in 0..Hold
          /\ prompts \in 0..MaxPrompts /\ pending \in 0..prompts /\ seen \in 0..prompts
          /\ asked \in 0..MaxApprovals /\ Len(post) <= MaxPost
      BY <1>1, PresenceAssumption DEF Init
    <3>2. /\ on \in BOOLEAN /\ paused \in BOOLEAN /\ woken \in BOOLEAN
          /\ stopped \in BOOLEAN /\ current \in BOOLEAN
          /\ acknowledged \in BOOLEAN /\ (acknowledged => seen # 0)
          /\ agent \in {"working", "blocked", "passed", "asking", "decided", "over"}
      BY DEF Init
    <3> QED
      BY <2>1, <3>1, <3>2 DEF TypeOK
  <2> QED
    BY <2>2, <1>1, PresenceAssumption DEF Init, SessionTypes
<1>3. GateLives /\ CopyFollows /\ PromptsFollow /\ AcksFollow
  BY <1>1 DEF Init, GateLives, CopyFollows, PromptsFollow, AcksFollow
<1>4. RequestsFollow /\ DecisionsFollow
  BY <1>1 DEF Init, RequestsFollow, DecisionsFollow
<1> QED
  BY <1>2, <1>3, <1>4 DEF SessionInv

\* check() issues a prompt only to an agent that has its task and asks for nothing,
\* and the supervisor has the end of the prompt before, if not yet this one.
LEMMA PromptIssued ==
  ASSUME SessionInv, Overdue
  PROVE  /\ on /\ pending = 0 /\ ~paused /\ left = 0 /\ prompts < MaxPrompts
         /\ current /\ ~stopped /\ agent \notin {"asking", "over"}
         /\ Attention \in MailMessages /\ Attention.type = "attention_required"
         /\ Attention.of = prompts + 1
         /\ Prompt = prompts + 1 /\ Checked = Append(mail, Attention)
         /\ \A i \in InMail : ~Prompted(i) /\ ~Requested(i)
         /\ seen = 0 \/ acknowledged
         /\ \A i \in InPost : ~Acked(i) /\ ~Decided(i)
<1>1. on /\ pending = 0 /\ ~paused /\ left = 0 /\ prompts < MaxPrompts
  BY DEF SessionInv, SessionTypes, Overdue, Counting
<1>2. current /\ ~stopped /\ agent \notin {"asking", "over"}
  BY <1>1 DEF SessionInv, GateLives
<1>3. prompts \in Nat
  BY DEF SessionInv, SessionTypes, TypeOK
<1>4. /\ Attention \in MailMessages /\ Attention.type = "attention_required"
      /\ Attention.of = prompts + 1
  BY <1>3 DEF Attention, Message, MailMessages
<1>5. Prompt = prompts + 1 /\ Checked = Append(mail, Attention)
  BY DEF Prompt, Checked
<1>6. \A i \in InMail : ~Prompted(i)
  BY <1>1, <1>3 DEF SessionInv, PromptsFollow, SessionTypes
<1>7. \A i \in InMail : ~Requested(i)
  BY <1>2 DEF SessionInv, RequestsFollow
<1>8. seen = 0 \/ acknowledged
  BY <1>1 DEF SessionInv, PromptsFollow
<1>9. \A i \in InPost : ~Acked(i)
  BY <1>1 DEF SessionInv, AcksFollow, SessionTypes, TypeOK
<1>10. \A i \in InPost : ~Decided(i)
  BY <1>2 DEF SessionInv, DecisionsFollow
<1> QED
  BY <1>1, <1>2, <1>4, <1>5, <1>6, <1>7, <1>8, <1>9, <1>10

\* A post that is kept, or loses its first message when that is not the stop.
PostTaken ==
  post' = post \/ (post # <<>> /\ post' = Tail(post) /\ Head(post).type # "stop")

LEMMA PostFollows ==
  ASSUME post \in Seq(PostMessages), Len(post) <= MaxPost, PostTaken
  PROVE  /\ post' \in Seq(PostMessages) /\ Len(post') <= MaxPost
         /\ \E d \in {0, 1} : \A i \in InPost' :
              /\ i \in Nat /\ i + d \in InPost /\ post'[i] = post[i + d]
              /\ Acked(i)' => Acked(i + d)
              /\ Decided(i)' => Decided(i + d)
<1>1. CASE post' = post
  <2>1. InPost' = InPost /\ \A i : Reached(i)' <=> Reached(i)
    BY <1>1 DEF InPost, Reached
  <2>2. \A i \in InPost' : i \in Nat /\ i + 0 = i
    BY DEF InPost
  <2>3. \A i \in InPost' :
          /\ i \in Nat /\ i + 0 \in InPost /\ post'[i] = post[i + 0]
          /\ Acked(i)' => Acked(i + 0)
          /\ Decided(i)' => Decided(i + 0)
    BY <1>1, <2>1, <2>2 DEF Acked, Decided
  <2> QED
    BY <1>1, <2>3
<1>2. CASE post # <<>> /\ post' = Tail(post) /\ Head(post).type # "stop"
  <2>1. \A i \in InPost' :
          /\ i \in Nat /\ i + 1 \in InPost /\ post'[i] = post[i + 1]
          /\ Acked(i)' => Acked(i + 1)
          /\ Decided(i)' => Decided(i + 1)
    BY <1>2, PostShrinks DEF Acked, Decided
  <2> QED
    BY <1>2, <2>1, PostShrinks
<1> QED
  BY <1>1, <1>2 DEF PostTaken

\* Every operation of the gate that begins with check() and does nothing else to the
\* prompt keeps the two processes together.
LEMMA CheckedSession ==
  ASSUME SessionInv, pending' = Prompt, Issued, mail' = Checked,
         UNCHANGED <<on, left, paused, stopped, asked, worked, main>>, woken' \in BOOLEAN,
         agent' = agent \/ {agent, agent'} \subseteq {"working", "blocked", "passed"},
         PostTaken
  PROVE  SessionInv'
<1> USE DEF SessionInv
<1>1. /\ post' \in Seq(PostMessages) /\ Len(post') <= MaxPost
      /\ \E d \in {0, 1} : \A i \in InPost' :
           /\ i \in Nat /\ i + d \in InPost /\ post'[i] = post[i + d]
           /\ Acked(i)' => Acked(i + d)
           /\ Decided(i)' => Decided(i + d)
  BY PostFollows DEF SessionTypes, TypeOK
<1>2. UNCHANGED <<current, seen, acknowledged, sinceSeen, row>>
  BY DEF main
<1>3. agent' \in {"working", "blocked", "passed", "asking", "decided", "over"}
  BY DEF SessionTypes, TypeOK
<1>4. CASE Overdue
  <2>1. /\ on /\ pending = 0 /\ ~paused /\ left = 0 /\ prompts < MaxPrompts
        /\ current /\ ~stopped /\ agent \notin {"asking", "over"}
        /\ Attention \in MailMessages /\ Attention.type = "attention_required"
        /\ Attention.of = prompts + 1
        /\ \A i \in InMail : ~Prompted(i) /\ ~Requested(i)
        /\ seen = 0 \/ acknowledged
        /\ \A i \in InPost : ~Acked(i) /\ ~Decided(i)
    BY <1>4, PromptIssued
  <2>2. pending' = prompts + 1 /\ prompts' = prompts + 1 /\ sinceIssue' = 0
    BY <1>4 DEF Prompt, Issued
  <2>3. mail' = Append(mail, Attention)
    BY <1>4 DEF Checked
  <2>4. /\ mail' \in Seq(MailMessages)
        /\ InMail' = InMail \cup {Len(mail) + 1}
        /\ \A i \in InMail : i \in Nat /\ i < Len(mail) + 1 /\ mail'[i] = mail[i]
        /\ Len(mail) + 1 \in Nat /\ mail'[Len(mail) + 1] = Attention
    BY <2>1, <2>3, MailGrows DEF SessionTypes
  <2>5. SessionTypes'
    <3>1. TypeOK'
      <4>1. TypeOK /\ prompts < MaxPrompts
        BY <2>1 DEF SessionTypes
      <4>2. /\ prompts' \in 0..MaxPrompts /\ pending' \in 0..prompts' /\ seen' \in 0..prompts'
            /\ sinceIssue' \in 0..Hold
        BY <1>2, <2>2, <4>1, PresenceAssumption DEF TypeOK
      <4> QED
        BY <1>1, <1>2, <1>3, <4>1, <4>2 DEF TypeOK
    <3>2. \A i \in InMail' : /\ Prompted(i)' => mail'[i].of \in 1..prompts'
                             /\ Lifted(i)' => mail'[i].of = 0
                             /\ Requested(i)' => mail'[i].of \in 1..asked'
      <4> SUFFICES ASSUME NEW i \in InMail'
                   PROVE  /\ Prompted(i)' => mail'[i].of \in 1..prompts'
                          /\ Lifted(i)' => mail'[i].of = 0
                          /\ Requested(i)' => mail'[i].of \in 1..asked'
        OBVIOUS
      <4>1. prompts \in Nat /\ asked' = asked
        BY DEF SessionTypes, TypeOK
      <4>2. CASE i \in InMail
        BY <2>2, <2>4, <4>1, <4>2 DEF SessionTypes, Prompted, Lifted, Requested
      <4>3. CASE i = Len(mail) + 1
        BY <2>1, <2>2, <2>4, <4>1, <4>3 DEF Prompted, Lifted, Requested
      <4>4. i \in InMail \/ i = Len(mail) + 1
        BY <2>4
      <4> QED
        BY <4>2, <4>3, <4>4
    <3> QED
      BY <1>1, <2>1, <2>2, <2>4, <3>1, <3>2 DEF SessionTypes, TypeOK
  <2>6. GateLives'
    BY <1>2, <2>1, <2>4 DEF GateLives, Ended
  <2>7. CopyFollows'
    BY <2>1, <2>2, <2>4 DEF CopyFollows, Prompted, Lifted
  <2>8. PromptsFollow'
    <3>1. \A i \in InMail' : Prompted(i)' <=> i = Len(mail) + 1
      BY <2>1, <2>4 DEF Prompted
    <3>2. \A i \in InMail' : Lifted(i)' <=> i \in InMail /\ Lifted(i)
      BY <2>1, <2>4 DEF Lifted
    <3>3. seen' # pending'
      BY <1>2, <2>2 DEF SessionTypes, TypeOK
    <3>4. \A i, j \in InMail' : Prompted(i)' /\ (Prompted(j)' \/ Lifted(j)') => j <= i
      BY <3>1, <3>2, <2>4
    <3> QED
      BY <1>2, <2>1, <2>2, <2>4, <3>1, <3>2, <3>3, <3>4 DEF PromptsFollow
  <2>9. AcksFollow' /\ DecisionsFollow'
    BY <1>1, <2>1 DEF AcksFollow, DecisionsFollow
  <2>10. RequestsFollow'
    BY <1>2, <2>1, <2>4 DEF RequestsFollow, Requested
  <2> QED
    BY <2>5, <2>6, <2>7, <2>8, <2>9, <2>10
<1>5. CASE ~Overdue
  <2>1. UNCHANGED <<pending, prompts, sinceIssue, mail>>
    BY <1>5 DEF Prompt, Issued, Checked
  <2>2. InMail' = InMail
    BY <2>1 DEF InMail
  <2>3. SessionTypes'
    BY <1>1, <1>2, <1>3, <2>1, <2>2
       DEF SessionTypes, TypeOK, Prompted, Lifted, Requested
  <2>4. GateLives'
    BY <1>2, <2>1, <2>2 DEF GateLives, Ended
  <2>5. CopyFollows' /\ PromptsFollow'
    BY <1>2, <2>1, <2>2 DEF CopyFollows, PromptsFollow, Prompted, Lifted, Ended
  <2>6. AcksFollow'
    BY <1>1, <1>2, <2>1, <2>2 DEF AcksFollow, Prompted, Lifted
  <2>7. RequestsFollow'
    BY <1>2, <2>1, <2>2 DEF RequestsFollow, Prompted, Requested
  <2>8. DecisionsFollow'
    BY <1>1, <1>2, <2>1 DEF DecisionsFollow
  <2> QED
    BY <2>3, <2>4, <2>5, <2>6, <2>7, <2>8
<1> QED
  BY <1>4, <1>5

\* Time: what the supervisor has seen is never older than what the gate has issued.
LEMMA TickSession == SessionInv /\ Tick => SessionInv'
<1> SUFFICES ASSUME SessionInv, Tick PROVE SessionInv'
  OBVIOUS
<1> USE DEF SessionInv
<1>1. UNCHANGED <<on, pending, paused, prompts, agent, woken, stopped, asked, current,
                  seen, acknowledged, row, mail, post>>
  BY DEF Tick, session
<1>2. InMail' = InMail /\ InPost' = InPost /\ \A i : Reached(i)' <=> Reached(i)
  BY <1>1 DEF InMail, InPost, Reached
<1>3. /\ sinceIssue' \in 0..Hold /\ sinceIssue' >= sinceIssue
      /\ sinceSeen' \in 0..Hold
      /\ sinceSeen <= sinceIssue => sinceSeen' <= sinceIssue'
  BY PresenceAssumption DEF Tick, Older, SessionTypes, TypeOK
<1>4. left' \in 0..Limit /\ worked' \in 0..(Limit + 1)
  BY PresenceAssumption DEF Tick, SessionTypes, TypeOK
<1>5. on /\ pending = 0 /\ left' = 0 => prompts < MaxPrompts
  <2>1. CASE left = 0
    BY <2>1 DEF SessionTypes
  <2>2. CASE left # 0
    BY <2>2 DEF Tick, SessionTypes, TypeOK
  <2> QED
    BY <2>1, <2>2
<1>6. SessionTypes'
  BY <1>1, <1>2, <1>3, <1>4, <1>5
     DEF SessionTypes, TypeOK, Prompted, Lifted, Requested
<1>7. GateLives' /\ CopyFollows'
  BY <1>1, <1>2 DEF GateLives, CopyFollows, Prompted, Lifted, Ended
<1>8. PromptsFollow'
  BY <1>1, <1>2, <1>3 DEF PromptsFollow, Prompted, Lifted
<1>9. AcksFollow'
  <2>1. sinceIssue >= Hold => sinceIssue' >= Hold
    BY <1>3, PresenceAssumption DEF SessionTypes, TypeOK
  <2> QED
    BY <1>1, <1>2, <2>1 DEF AcksFollow, Acked, Prompted, Lifted
<1>10. RequestsFollow' /\ DecisionsFollow'
  BY <1>1, <1>2 DEF RequestsFollow, DecisionsFollow, Decided, Prompted, Requested
<1> QED
  BY <1>6, <1>7, <1>8, <1>9, <1>10

\* A tool that goes on tells nobody.
LEMMA GoesOnSession == SessionInv /\ (Proceeds \/ Resumes) => SessionInv'
<1> SUFFICES ASSUME SessionInv, Proceeds \/ Resumes PROVE SessionInv'
  OBVIOUS
<1> USE DEF SessionInv
<1>1. /\ agent \in {"passed", "decided"} /\ agent' = "working"
      /\ paused' = (paused /\ agent # "decided")
      /\ UNCHANGED <<on, pending, left, sinceIssue, prompts, woken, stopped, asked, current,
                     seen, acknowledged, sinceSeen, row, mail, post, worked>>
  BY DEF Proceeds, Resumes, gate, main, SessionTypes, TypeOK, GateLives
<1>2. InMail' = InMail /\ InPost' = InPost /\ \A i : Reached(i)' <=> Reached(i)
  BY <1>1 DEF InMail, InPost, Reached
<1>3. SessionTypes'
  BY <1>1, <1>2 DEF SessionTypes, TypeOK, Prompted, Lifted, Requested
<1>4. GateLives' /\ CopyFollows' /\ PromptsFollow'
  BY <1>1, <1>2 DEF GateLives, CopyFollows, PromptsFollow, Prompted, Lifted, Ended
<1>5. AcksFollow' /\ RequestsFollow' /\ DecisionsFollow'
  BY <1>1, <1>2
     DEF AcksFollow, Acked, RequestsFollow, DecisionsFollow, Decided, Prompted, Lifted,
         Requested
<1> QED
  BY <1>3, <1>4, <1>5

\* An approval is requested behind whatever check() has issued, and pauses the gate.
LEMMA AsksSession == SessionInv /\ Asks => SessionInv'
<1> SUFFICES ASSUME SessionInv, Asks PROVE SessionInv'
  OBVIOUS
<1> USE DEF SessionInv
<1> DEFINE request == Message("approval.request", asked + 1)
<1>1. /\ agent = "passed" /\ agent' = "asking" /\ paused' = TRUE
      /\ asked < MaxApprovals /\ asked' = asked + 1
      /\ UNCHANGED <<on, left, woken, stopped, current, seen, acknowledged, sinceSeen, row,
                     post, worked>>
  BY DEF Asks, main
<1>2. InPost' = InPost /\ \A i : Reached(i)' <=> Reached(i)
  BY <1>1 DEF InPost, Reached
<1>3. /\ request \in MailMessages /\ request.type = "approval.request"
      /\ request.of = asked' /\ asked' \in 1..MaxApprovals
  BY <1>1, PresenceAssumption DEF Message, MailMessages, SessionTypes, TypeOK
<1>4. ~stopped => \A i \in InPost : ~Decided(i)
  BY <1>1 DEF DecisionsFollow
<1>5. \E last \in Nat :
        /\ mail' \in Seq(MailMessages) /\ last \in InMail' /\ mail'[last] = request
        /\ InMail \subseteq InMail'
        /\ \A i \in InMail : i \in Nat /\ i < last /\ mail'[i] = mail[i]
        /\ \A i \in InMail' \ InMail : i # last =>
             Overdue /\ i = last - 1 /\ mail'[i] = Attention /\ \A j \in InMail : j < i
        /\ Overdue => last - 1 \in InMail' /\ mail'[last - 1] = Attention
  <2>1. CASE Overdue
    <3>1. mail' = Append(Append(mail, Attention), request) /\ Attention \in MailMessages
      BY <2>1, PromptIssued DEF Asks
    <3>2. /\ mail' \in Seq(MailMessages) /\ Len(mail) \in Nat
          /\ InMail' = InMail \cup {Len(mail) + 1, Len(mail) + 2}
          /\ mail'[Len(mail) + 1] = Attention /\ mail'[Len(mail) + 2] = request
          /\ \A i \in InMail : i \in Nat /\ i < Len(mail) + 1 /\ mail'[i] = mail[i]
      <4> DEFINE prompted == Append(mail, Attention)
      <4>1. /\ prompted \in Seq(MailMessages) /\ Len(prompted) = Len(mail) + 1
            /\ Len(mail) \in Nat /\ prompted[Len(mail) + 1] = Attention
            /\ \A i \in 1..Len(mail) : prompted[i] = mail[i]
        BY <3>1 DEF SessionTypes
      <4>2. mail' = Append(prompted, request)
        BY <3>1
      <4> HIDE DEF prompted
      <4>3. /\ mail' \in Seq(MailMessages) /\ Len(mail') = Len(mail) + 2
            /\ mail'[Len(mail) + 2] = request
            /\ \A i \in 1..(Len(mail) + 1) : mail'[i] = prompted[i]
        BY <1>3, <4>1, <4>2
      <4> QED
        BY <4>1, <4>3 DEF InMail
    <3> WITNESS Len(mail) + 2 \in Nat
    <3> QED
      BY <3>2, <2>1
  <2>2. CASE ~Overdue
    <3>1. mail' = Append(mail, request)
      BY <2>2 DEF Asks, Checked
    <3>2. /\ mail' \in Seq(MailMessages)
          /\ InMail' = InMail \cup {Len(mail) + 1}
          /\ \A i \in InMail : i \in Nat /\ i < Len(mail) + 1 /\ mail'[i] = mail[i]
          /\ Len(mail) + 1 \in Nat /\ mail'[Len(mail) + 1] = request
      BY <3>1, <1>3, MailGrows DEF SessionTypes
    <3> WITNESS Len(mail) + 1 \in Nat
    <3> QED
      BY <3>2, <2>2
  <2> QED
    BY <2>1, <2>2
<1>6. PICK last \in Nat :
        /\ mail' \in Seq(MailMessages) /\ last \in InMail' /\ mail'[last] = request
        /\ InMail \subseteq InMail'
        /\ \A i \in InMail : i \in Nat /\ i < last /\ mail'[i] = mail[i]
        /\ \A i \in InMail' \ InMail : i # last =>
             Overdue /\ i = last - 1 /\ mail'[i] = Attention /\ \A j \in InMail : j < i
        /\ Overdue => last - 1 \in InMail' /\ mail'[last - 1] = Attention
  BY <1>5
<1> HIDE DEF request
<1>7. Overdue => Attention.type = "attention_required" /\ Attention.of = prompts + 1
  BY PromptIssued
<1>8. /\ \A i \in InMail' : Prompted(i)' <=>
           (i \in InMail /\ Prompted(i)) \/ (Overdue /\ i = last - 1)
      /\ \A i \in InMail' : Lifted(i)' <=> i \in InMail /\ Lifted(i)
      /\ \A i \in InMail' : Ended(i)' <=> i \in InMail /\ Ended(i)
      /\ \A i \in InMail' : Requested(i)' <=> (i \in InMail /\ Requested(i)) \/ i = last
  BY <1>3, <1>6, <1>7 DEF Prompted, Lifted, Ended, Requested
<1>9. /\ Overdue => /\ on /\ pending = 0 /\ left = 0 /\ prompts < MaxPrompts
                    /\ pending' = prompts + 1 /\ prompts' = prompts + 1 /\ sinceIssue' = 0
                    /\ seen = 0 \/ acknowledged
                    /\ \A i \in InMail : ~Prompted(i)
                    /\ \A i \in InPost : ~Acked(i)
      /\ ~Overdue => UNCHANGED <<pending, prompts, sinceIssue>>
  <2>1. CASE Overdue
    BY <2>1, PromptIssued DEF Asks, Prompt, Issued
  <2>2. CASE ~Overdue
    BY <2>2 DEF Asks, Prompt, Issued
  <2> QED
    BY <2>1, <2>2
<1>10. SessionTypes'
  <2>1. TypeOK'
    <3>0. /\ prompts \in 0..MaxPrompts /\ pending \in 0..prompts /\ seen \in 0..prompts
          /\ sinceIssue \in 0..Hold /\ seen' = seen
          /\ MaxPrompts \in Nat /\ Hold \in Nat
      BY <1>1, PresenceAssumption DEF SessionTypes, TypeOK
    <3>1. /\ prompts' \in 0..MaxPrompts /\ pending' \in 0..prompts' /\ seen' \in 0..prompts'
          /\ sinceIssue' \in 0..Hold
      <4>1. CASE Overdue
        BY <1>9, <3>0, <4>1
      <4>2. CASE ~Overdue
        BY <1>9, <3>0, <4>2
      <4> QED
        BY <4>1, <4>2
    <3>2. asked' \in 0..MaxApprovals
      BY <1>3
    <3> QED
      BY <1>1, <3>1, <3>2 DEF SessionTypes, TypeOK
  <2>2. \A i \in InMail' : /\ Prompted(i)' => mail'[i].of \in 1..prompts'
                           /\ Lifted(i)' => mail'[i].of = 0
                           /\ Requested(i)' => mail'[i].of \in 1..asked'
    <3> SUFFICES ASSUME NEW i \in InMail'
                 PROVE  /\ Prompted(i)' => mail'[i].of \in 1..prompts'
                        /\ Lifted(i)' => mail'[i].of = 0
                        /\ Requested(i)' => mail'[i].of \in 1..asked'
      OBVIOUS
    <3>1. prompts \in Nat /\ prompts' \in Nat /\ prompts <= prompts'
          /\ asked \in Nat /\ asked' = asked + 1
      BY <1>1, <1>9 DEF SessionTypes, TypeOK
    <3>2. Prompted(i)' => mail'[i].of \in 1..prompts'
      BY <3>1, <1>6, <1>7, <1>8, <1>9 DEF SessionTypes
    <3>3. Lifted(i)' => mail'[i].of = 0
      BY <1>6, <1>8 DEF SessionTypes
    <3>4. Requested(i)' => mail'[i].of \in 1..asked'
      BY <3>1, <1>3, <1>6, <1>8 DEF SessionTypes
    <3> QED
      BY <3>2, <3>3, <3>4
  <2> QED
    BY <2>1, <2>2, <1>1, <1>6, <1>9, PresenceAssumption DEF SessionTypes, TypeOK
<1>11. GateLives'
  BY <1>1, <1>6, <1>8, <1>9 DEF GateLives
<1>12. CopyFollows'
  <2> SUFFICES ASSUME current', \A i \in InMail' : ~Ended(i)'
               PROVE  /\ (\A i \in InMail' : ~Prompted(i)' /\ ~Lifted(i)') => seen' = pending'
                      /\ \A i \in InMail' :
                           /\ Prompted(i)' \/ Lifted(i)'
                           /\ \A j \in InMail' : j > i => ~Prompted(j)' /\ ~Lifted(j)'
                           => pending' = mail'[i].of
    BY DEF CopyFollows
  <2>1. CASE Overdue
    BY <2>1, <1>6, <1>7, <1>8, <1>9
  <2>2. CASE ~Overdue
    BY <2>2, <1>1, <1>6, <1>8, <1>9 DEF CopyFollows
  <2> QED
    BY <2>1, <2>2
<1>13. PromptsFollow'
  <2>1. CASE Overdue
    <3>1. seen' # pending'
      BY <2>1, <1>1, <1>9 DEF SessionTypes, TypeOK
    <3>2. ASSUME NEW i \in InMail', NEW j \in InMail', Prompted(i)', Prompted(j)' \/ Lifted(j)'
          PROVE  j <= i
      <4>1. i = last - 1
        BY <2>1, <3>2, <1>8, <1>9
      <4>2. j = last - 1 \/ j \in InMail
        BY <3>2, <1>8
      <4>3. j \in InMail => j \in Nat /\ j < last
        BY <1>6
      <4> QED
        BY <4>1, <4>2, <4>3
    <3> QED
      BY <2>1, <3>1, <3>2, <1>1, <1>6, <1>7, <1>8, <1>9 DEF PromptsFollow
  <2>2. CASE ~Overdue
    BY <2>2, <1>1, <1>6, <1>8, <1>9 DEF PromptsFollow
  <2> QED
    BY <2>1, <2>2
<1>14. AcksFollow'
  BY <1>1, <1>2, <1>6, <1>8, <1>9 DEF AcksFollow, Acked
<1>15. RequestsFollow'
  BY <1>1, <1>3, <1>6, <1>8 DEF RequestsFollow, SessionTypes, TypeOK
<1>16. DecisionsFollow'
  BY <1>1, <1>2, <1>4 DEF DecisionsFollow, Decided
<1> QED
  BY <1>10, <1>11, <1>12, <1>13, <1>14, <1>15, <1>16

LEMMA GateClosedTypes ==
  ASSUME TypeOK, on' = FALSE, pending' = 0, paused' = FALSE, stopped' \in BOOLEAN,
         agent' \in {"working", "blocked", "passed", "asking", "decided", "over"},
         Len(post') <= MaxPost,
         UNCHANGED <<left, sinceIssue, prompts, woken, asked, current, seen, acknowledged,
                     sinceSeen, row, worked>>
  PROVE  TypeOK'
<1>1. pending' \in 0..prompts' /\ seen' \in 0..prompts' /\ prompts' \in 0..MaxPrompts
  BY PresenceAssumption DEF TypeOK
<1>2. /\ left' \in 0..Limit /\ worked' \in 0..(Limit + 1)
      /\ sinceIssue' \in 0..Hold /\ sinceSeen' \in 0..Hold /\ asked' \in 0..MaxApprovals
  BY DEF TypeOK
<1>3. /\ on' \in BOOLEAN /\ paused' \in BOOLEAN /\ woken' \in BOOLEAN
      /\ current' \in BOOLEAN /\ acknowledged' \in BOOLEAN /\ (acknowledged' => seen' # 0)
      /\ row' \in [1..MaxApprovals -> {"none", "pending", "decided", "denied"}]
  BY DEF TypeOK
<1> QED
  BY <1>1, <1>2, <1>3 DEF TypeOK

\* A gate that loses its task, at the end or the stop of the session, says once what
\* becomes of its prompt; then nothing is left to follow but the copy.
LEMMA EndsSession == SessionInv /\ Ends => SessionInv'
<1> SUFFICES ASSUME SessionInv, Ends PROVE SessionInv'
  OBVIOUS
<1> USE DEF SessionInv
<1>1. /\ agent = "working" /\ agent' = "over" /\ on' = FALSE /\ pending' = 0 /\ paused' = FALSE
      /\ UNCHANGED <<left, sinceIssue, prompts, woken, stopped, asked, current, seen,
                     acknowledged, sinceSeen, row, post, worked>>
  BY DEF Ends, main
<1>2. InPost' = InPost /\ \A i : Reached(i)' <=> Reached(i)
  BY <1>1 DEF InPost, Reached
<1>3. /\ mail' \in Seq(MailMessages) /\ InMail \subseteq InMail'
      /\ \A i \in InMail : mail'[i] = mail[i]
      /\ \A i \in InMail' \ InMail :
           /\ mail'[i].type \in {"end", "presence.cleared"} /\ mail'[i].of = 0
      /\ \E i \in InMail' : Ended(i)'
  <2> DEFINE end == Message("end", 0)
  <2>1. end \in MailMessages /\ Cleared \in MailMessages
    BY DEF Message, Cleared, MailMessages
  <2>2. mail' = Append(mail, end) \/ mail' = Append(Append(mail, end), Cleared)
    BY <2>1 DEF Ends, SessionTypes
  <2>3. end.type = "end" /\ Cleared.type = "presence.cleared" /\ end.of = 0 /\ Cleared.of = 0
    BY DEF Message, Cleared
  <2> HIDE DEF end
  <2>4. CASE mail' = Append(mail, end)
    BY <2>1, <2>3, <2>4, MailGrows DEF SessionTypes, Ended
  <2>5. CASE mail' = Append(Append(mail, end), Cleared)
    <3>1. /\ mail' \in Seq(MailMessages) /\ Len(mail) \in Nat
          /\ InMail' = InMail \cup {Len(mail) + 1, Len(mail) + 2}
          /\ mail'[Len(mail) + 1] = end /\ mail'[Len(mail) + 2] = Cleared
          /\ \A i \in InMail : mail'[i] = mail[i]
      BY <2>1, <2>5 DEF InMail, SessionTypes
    <3> QED
      BY <3>1, <2>3 DEF Ended
  <2> QED
    BY <2>2, <2>4, <2>5
<1>4. SessionTypes'
  <2>1. TypeOK'
    <3>1. TypeOK /\ stopped' \in BOOLEAN /\ Len(post') <= MaxPost
      BY <1>1 DEF SessionTypes, TypeOK
    <3> QED
      BY <1>1, <3>1, GateClosedTypes
  <2>2. \A i \in InMail' :
          (i \in InMail /\ mail'[i] = mail[i])
            \/ (mail'[i].type \in {"end", "presence.cleared"} /\ mail'[i].of = 0)
    BY <1>3
  <2> QED
    BY <1>1, <1>3, <2>1, <2>2 DEF SessionTypes, Prompted, Lifted, Requested
<1>5. GateLives' /\ CopyFollows' /\ PromptsFollow' /\ AcksFollow'
  BY <1>1, <1>3 DEF GateLives, CopyFollows, PromptsFollow, AcksFollow
<1>6. RequestsFollow'
  BY <1>1, <1>3 DEF RequestsFollow, Requested
<1>7. DecisionsFollow'
  BY <1>1, <1>2 DEF DecisionsFollow, Decided
<1> QED
  BY <1>4, <1>5, <1>6, <1>7

LEMMA StopsSession == SessionInv /\ Stops => SessionInv'
<1> SUFFICES ASSUME SessionInv, Stops PROVE SessionInv'
  OBVIOUS
<1> USE DEF SessionInv
<1>1. /\ post # <<>> /\ post' = Tail(post) /\ stopped' = TRUE
      /\ on' = FALSE /\ pending' = 0 /\ paused' = FALSE
      /\ UNCHANGED <<left, sinceIssue, prompts, woken, asked, current, seen, acknowledged,
                     sinceSeen, row, worked>>
      /\ agent' \in {"working", "blocked", "passed", "asking", "decided", "over"}
  BY DEF Stops, Receives, main, SessionTypes, TypeOK
<1>2. post' \in Seq(PostMessages) /\ Len(post') <= MaxPost
  BY <1>1, PostShrinks DEF SessionTypes, TypeOK
<1>3. Cleared \in MailMessages /\ Cleared.type = "presence.cleared" /\ Cleared.of = 0
  BY DEF Message, Cleared, MailMessages
<1>4. agent' # "asking"
  BY DEF Stops, SessionTypes, TypeOK
<1>5. CASE pending # 0
  <2>1. /\ mail' \in Seq(MailMessages)
        /\ InMail' = InMail \cup {Len(mail) + 1}
        /\ \A i \in InMail : i \in Nat /\ i < Len(mail) + 1 /\ mail'[i] = mail[i]
        /\ Len(mail) + 1 \in Nat /\ mail'[Len(mail) + 1] = Cleared
    BY <1>3, <1>5, MailGrows DEF Stops, SessionTypes
  <2>2. SessionTypes'
    <3>1. TypeOK'
      BY <1>1, <1>2, GateClosedTypes DEF SessionTypes
    <3> QED
      BY <1>1, <1>2, <1>3, <2>1, <3>1 DEF SessionTypes, Prompted, Lifted, Requested
  <2>3. CopyFollows'
    BY <1>1, <1>3, <2>1 DEF CopyFollows, Prompted, Lifted
  <2>4. RequestsFollow'
    BY <1>1, <1>4 DEF RequestsFollow
  <2> QED
    BY <1>1, <2>2, <2>3, <2>4 DEF GateLives, PromptsFollow, AcksFollow, DecisionsFollow
<1>6. CASE pending = 0
  <2>1. mail' = mail /\ InMail' = InMail
    BY <1>6 DEF Stops, InMail
  <2>2. SessionTypes'
    <3>1. TypeOK'
      BY <1>1, <1>2, GateClosedTypes DEF SessionTypes
    <3> QED
      BY <1>1, <1>2, <2>1, <3>1 DEF SessionTypes, Prompted, Lifted, Requested
  <2>3. CopyFollows'
    BY <1>1, <1>6, <2>1 DEF CopyFollows, Prompted, Lifted, Ended
  <2>4. RequestsFollow'
    BY <1>1, <1>4 DEF RequestsFollow
  <2> QED
    BY <1>1, <2>2, <2>3, <2>4 DEF GateLives, PromptsFollow, AcksFollow, DecisionsFollow
<1> QED
  BY <1>5, <1>6

\* An acknowledgement that the gate accepts is the only one, and of the prompt the
\* supervisor has; what it lifts has not been lifted before.
LEMMA AcknowledgesSession == SessionInv /\ Acknowledges => SessionInv'
<1> SUFFICES ASSUME SessionInv, Acknowledges PROVE SessionInv'
  OBVIOUS
<1> USE DEF SessionInv
<1>1. post # <<>> /\ post' = Tail(post) /\ Head(post).type = "presence-ack"
  BY DEF Acknowledges, Receives
<1>2. PostTaken
  BY <1>1 DEF PostTaken
<1>3. CASE pending # 0 /\ pending = Head(post).of /\ sinceIssue >= Hold
  <2>1. /\ pending' = 0 /\ left' = Limit /\ mail' = Append(mail, Cleared) /\ worked' = 0
        /\ woken' \in BOOLEAN
        /\ UNCHANGED <<on, paused, agent, stopped, asked, sinceIssue, prompts, current,
                       seen, acknowledged, sinceSeen, row>>
    BY <1>3 DEF Acknowledges, main
  <2>2. on
    BY <1>3 DEF GateLives
  <2>3. 1 \in InPost /\ Acked(1)
    BY <1>1, PostShrinks DEF SessionTypes, TypeOK, Acked
  <2>4. /\ acknowledged /\ seen = pending
        /\ \A j \in InMail : ~Prompted(j) /\ ~Lifted(j)
        /\ \A i \in InPost : Acked(i) => i = 1
    BY <2>2, <2>3 DEF AcksFollow
  <2>5. ~stopped => \A i \in InPost : ~Decided(i)
    BY <1>3 DEF DecisionsFollow
  <2>6. /\ post' \in Seq(PostMessages) /\ Len(post') <= MaxPost
        /\ \A i \in InPost' : /\ i \in Nat /\ i + 1 \in InPost /\ post'[i] = post[i + 1]
                              /\ Reached(i)' => Reached(i + 1)
        /\ InPost' \subseteq 1..Len(post')
    BY <1>1, PostShrinks DEF SessionTypes, TypeOK, InPost
  <2>7. \A i \in InPost' : ~Acked(i)' /\ (Decided(i)' => Decided(i + 1))
    <3>1. \A i \in InPost' : i + 1 # 1
      BY DEF InPost
    <3> QED
      BY <2>4, <2>6, <3>1 DEF Acked, Decided
  <2>8. Cleared \in MailMessages /\ Cleared.type = "presence.cleared" /\ Cleared.of = 0
    BY DEF Message, Cleared, MailMessages
  <2>9. /\ mail' \in Seq(MailMessages)
        /\ InMail' = InMail \cup {Len(mail) + 1}
        /\ \A i \in InMail : i \in Nat /\ i < Len(mail) + 1 /\ mail'[i] = mail[i]
        /\ Len(mail) + 1 \in Nat /\ mail'[Len(mail) + 1] = Cleared
    BY <2>1, <2>8, MailGrows DEF SessionTypes
  <2>10. SessionTypes'
    <3>1. TypeOK'
      <4>1. TypeOK /\ Len(post') <= MaxPost
        BY <2>6 DEF SessionTypes
      <4>2. left' \in 0..Limit /\ worked' \in 0..(Limit + 1) /\ pending' \in 0..prompts'
        BY <2>1, <4>1, PresenceAssumption DEF TypeOK
      <4> QED
        BY <2>1, <4>1, <4>2 DEF TypeOK
    <3>2. ASSUME NEW i \in InMail'
          PROVE  /\ Prompted(i)' => mail'[i].of \in 1..prompts'
                 /\ Lifted(i)' => mail'[i].of = 0
                 /\ Requested(i)' => mail'[i].of \in 1..asked'
      <4>1. CASE i \in InMail
        BY <2>1, <2>9, <4>1 DEF SessionTypes, Prompted, Lifted, Requested
      <4>2. CASE i = Len(mail) + 1
        BY <2>8, <2>9, <4>2 DEF Prompted, Lifted, Requested
      <4> QED
        BY <2>9, <4>1, <4>2
    <3>3. on' /\ pending' = 0 /\ left' = 0 => prompts' < MaxPrompts
      BY <2>1, PresenceAssumption
    <3> QED
      BY <2>6, <2>9, <3>1, <3>2, <3>3 DEF SessionTypes
  <2>11. GateLives'
    BY <2>1, <2>8, <2>9 DEF GateLives, Ended
  <2>12. CopyFollows'
    BY <2>1, <2>8, <2>9 DEF CopyFollows, Prompted, Lifted
  <2>13. \A i \in InMail' :
           /\ ~Prompted(i)'
           /\ Lifted(i)' => i = Len(mail) + 1
           /\ Requested(i)' => i \in InMail /\ Requested(i)
    BY <2>4, <2>8, <2>9 DEF Prompted, Lifted, Requested
  <2>14. PromptsFollow' /\ AcksFollow'
    <3>1. PromptsFollow'
      BY <1>3, <2>1, <2>4, <2>13 DEF PromptsFollow
    <3> QED
      BY <3>1, <2>7 DEF AcksFollow
  <2>15. RequestsFollow'
    BY <2>1, <2>9, <2>13 DEF RequestsFollow
  <2>16. DecisionsFollow'
    BY <2>1, <2>5, <2>6, <2>7 DEF DecisionsFollow
  <2> QED
    BY <2>10, <2>11, <2>12, <2>14, <2>15, <2>16
<1>4. CASE ~(pending # 0 /\ pending = Head(post).of /\ sinceIssue >= Hold)
  <2>1. /\ pending' = Prompt /\ Issued /\ mail' = Checked
        /\ UNCHANGED <<on, left, paused, stopped, asked, worked, main, agent, woken>>
    BY <1>4 DEF Acknowledges
  <2>2. woken' \in BOOLEAN
    BY <2>1 DEF SessionTypes, TypeOK
  <2> QED
    BY <2>1, <2>2, <1>2, CheckedSession
<1> QED
  BY <1>3, <1>4

\* A decision that arrives finds its approval awaited, unless the session is stopped.
LEMMA TakesDecisionSession == SessionInv /\ TakesDecision => SessionInv'
<1> SUFFICES ASSUME SessionInv, TakesDecision PROVE SessionInv'
  OBVIOUS
<1>1. /\ post # <<>> /\ post' = Tail(post) /\ Head(post).type = "approval"
      /\ pending' = Prompt /\ Issued /\ mail' = Checked
      /\ UNCHANGED <<on, left, paused, woken, stopped, asked, main, worked>>
  BY DEF TakesDecision, Receives
<1>2. PostTaken
  BY <1>1 DEF PostTaken
<1>3. woken' \in BOOLEAN
  BY <1>1 DEF SessionInv, SessionTypes, TypeOK
<1>4. CASE agent' = agent
  BY <1>1, <1>2, <1>3, <1>4, CheckedSession
<1>5. CASE agent' # agent
  <2> USE DEF SessionInv
  <2>1. agent = "asking" /\ agent' = "decided" /\ asked = Head(post).of
    BY <1>5 DEF TakesDecision
  <2>2. ~Overdue
    BY <2>1, PromptIssued
  <2>3. UNCHANGED <<pending, prompts, sinceIssue, mail, current, seen, acknowledged,
                    sinceSeen, row>>
    BY <2>2, <1>1 DEF Prompt, Issued, Checked, main
  <2>4. InMail' = InMail
    BY <2>3 DEF InMail
  <2>5. 1 \in InPost /\ (~stopped => Decided(1))
    BY <1>1, PostShrinks DEF SessionTypes, TypeOK, Decided
  <2>6. ~stopped => /\ row[asked] = "decided"
                    /\ \A i \in InPost : Decided(i) => i = 1
    BY <2>5 DEF DecisionsFollow
  <2>7. /\ post' \in Seq(PostMessages) /\ Len(post') <= MaxPost
        /\ \A i \in InPost' : /\ i \in Nat /\ i + 1 \in InPost /\ post'[i] = post[i + 1]
                              /\ Reached(i)' => Reached(i + 1)
    BY <1>1, PostShrinks DEF SessionTypes, TypeOK
  <2>8. \A i \in InPost' : (Acked(i)' => Acked(i + 1)) /\ (~stopped => ~Decided(i)')
    <3>1. \A i \in InPost' : i + 1 # 1
      BY DEF InPost
    <3> QED
      BY <2>6, <2>7, <3>1 DEF Acked, Decided
  <2>9. SessionTypes'
    BY <1>1, <1>3, <2>1, <2>3, <2>4, <2>7
       DEF SessionTypes, TypeOK, Prompted, Lifted, Requested
  <2>10. GateLives' /\ CopyFollows' /\ PromptsFollow'
    BY <1>1, <2>1, <2>3, <2>4
       DEF GateLives, CopyFollows, PromptsFollow, Prompted, Lifted, Ended
  <2>11. AcksFollow'
    <3> SUFFICES ASSUME on' PROVE AcksFollow'
      BY DEF AcksFollow
    <3>1. on /\ \A j \in InMail' : (Prompted(j)' <=> Prompted(j)) /\ (Lifted(j)' <=> Lifted(j))
      BY <1>1, <2>3 DEF Prompted, Lifted
    <3>2. \A i \in InPost' : Acked(i)' =>
            /\ acknowledged' /\ seen' = pending' /\ post'[i].of = pending' /\ sinceIssue' >= Hold
            /\ \A j \in InMail' : ~Prompted(j)' /\ ~Lifted(j)'
      BY <2>3, <2>4, <2>7, <2>8, <3>1 DEF AcksFollow
    <3>3. \A i, j \in InPost' : Acked(i)' /\ Acked(j)' => i = j
      BY <2>7, <2>8, <3>1 DEF AcksFollow
    <3> QED
      BY <3>2, <3>3 DEF AcksFollow
  <2>12. RequestsFollow'
    BY <1>1, <2>1, <2>3, <2>4, <2>6 DEF RequestsFollow, Prompted, Requested
  <2>13. DecisionsFollow'
    BY <1>1, <2>8 DEF DecisionsFollow
  <2> QED
    BY <2>9, <2>10, <2>11, <2>12, <2>13
<1> QED
  BY <1>4, <1>5

\* The supervisor hears what the gate has said in the order it was said.
LEMMA HearsSession == SessionInv /\ Hears => SessionInv'
<1> SUFFICES ASSUME SessionInv, Hears PROVE SessionInv'
  OBVIOUS
<1> USE DEF SessionInv
<1> DEFINE message == Head(mail)
<1>1. /\ mail # <<>> /\ mail' = Tail(mail)
      /\ UNCHANGED <<on, pending, left, paused, sinceIssue, prompts, agent, woken, stopped,
                     asked, post, worked>>
  BY DEF Hears, gate, session
<1>2. InPost' = InPost /\ \A i : Reached(i)' <=> Reached(i)
  BY <1>1 DEF InPost, Reached
<1>3. /\ mail' \in Seq(MailMessages)
      /\ 1 \in InMail /\ message = mail[1] /\ mail[1] \in MailMessages
      /\ \A i \in InMail' : i \in Nat /\ i + 1 \in InMail /\ mail'[i] = mail[i + 1]
      /\ \A i \in InMail : i \in Nat /\ (i = 1 \/ (i - 1 \in InMail' /\ mail'[i - 1] = mail[i]))
  BY <1>1, MailShrinks DEF SessionTypes
<1> HIDE DEF message
<1>4. ASSUME NEW i \in InMail'
      PROVE  /\ i \in Nat /\ i + 1 \in InMail /\ i + 1 # 1 /\ mail'[i] = mail[i + 1]
             /\ (Prompted(i)' <=> Prompted(i + 1)) /\ (Lifted(i)' <=> Lifted(i + 1))
             /\ (Requested(i)' <=> Requested(i + 1)) /\ (Ended(i)' <=> Ended(i + 1))
  <2>1. i \in Nat /\ i + 1 \in InMail /\ mail'[i] = mail[i + 1]
    BY <1>3
  <2>2. i + 1 # 1
    BY DEF InMail
  <2> QED
    BY <2>1, <2>2 DEF Prompted, Lifted, Requested, Ended
<1>5. ASSUME NEW i \in InMail, i # 1
      PROVE  /\ i \in Nat /\ i - 1 \in InMail'
             /\ (Prompted(i) <=> Prompted(i - 1)') /\ (Lifted(i) <=> Lifted(i - 1)')
             /\ (Ended(i) <=> Ended(i - 1)')
  <2>1. i \in Nat /\ i - 1 \in InMail' /\ mail'[i - 1] = mail[i]
    BY <1>3, <1>5
  <2> QED
    BY <2>1 DEF Prompted, Lifted, Ended
<1>6. ASSUME TypeOK' PROVE SessionTypes'
  <2>1. \A i \in InMail' : /\ Prompted(i)' => mail'[i].of \in 1..prompts'
                           /\ Lifted(i)' => mail'[i].of = 0
                           /\ Requested(i)' => mail'[i].of \in 1..asked'
    BY <1>1, <1>4 DEF SessionTypes
  <2> QED
    BY <1>1, <1>3, <1>6, <2>1 DEF SessionTypes
<1>7. ASSUME UNCHANGED current, ~Ended(1) \/ ~current PROVE GateLives'
  BY <1>1, <1>4, <1>7 DEF GateLives
<1>8. ASSUME UNCHANGED row, ~Requested(1) PROVE RequestsFollow' /\ DecisionsFollow'
  <2>1. ~stopped => \A i \in InMail' : Requested(i)' =>
          /\ agent = "asking" /\ mail'[i].of = asked /\ row[asked] = "none"
          /\ \A j \in InMail' : Prompted(j)' => j < i
          /\ \A j \in InMail' : Requested(j)' => j = i
    <3> SUFFICES ASSUME ~stopped, NEW i \in InMail', Requested(i)'
                 PROVE  /\ agent = "asking" /\ mail'[i].of = asked /\ row[asked] = "none"
                        /\ \A j \in InMail' : Prompted(j)' => j < i
                        /\ \A j \in InMail' : Requested(j)' => j = i
      OBVIOUS
    <3>1. /\ agent = "asking" /\ mail[i + 1].of = asked /\ row[asked] = "none"
          /\ \A j \in InMail : Prompted(j) => j < i + 1
          /\ \A j \in InMail : Requested(j) => j = i + 1
      BY <1>4 DEF RequestsFollow
    <3>2. ASSUME NEW j \in InMail', Prompted(j)' PROVE j < i
      <4>1. j + 1 < i + 1
        BY <1>4, <3>1, <3>2
      <4> QED
        BY <4>1, <1>4
    <3>3. ASSUME NEW j \in InMail', Requested(j)' PROVE j = i
      <4>1. j + 1 = i + 1
        BY <1>4, <3>1, <3>3
      <4> QED
        BY <4>1, <1>4
    <3> QED
      BY <1>4, <3>1, <3>2, <3>3
  <2>2. RequestsFollow'
    BY <1>1, <1>4, <1>8, <2>1 DEF RequestsFollow
  <2>3. DecisionsFollow'
    BY <1>1, <1>2, <1>8 DEF DecisionsFollow, Decided
  <2> QED
    BY <2>2, <2>3
\* What is left in the mail is in the order it was.
<1>9. on => /\ \A i \in InMail' : Prompted(i)' =>
                 mail'[i].of = pending /\ (seen = 0 \/ acknowledged)
            /\ \A i \in InMail' : Lifted(i)' => acknowledged /\ seen # pending
            /\ \A i, j \in InMail' : Prompted(i)' /\ (Prompted(j)' \/ Lifted(j)') => j <= i
            /\ \A i, j \in InMail' : Lifted(i)' /\ Lifted(j)' => i = j
  <2> SUFFICES ASSUME on
               PROVE  /\ \A i \in InMail' : Prompted(i)' =>
                           mail'[i].of = pending /\ (seen = 0 \/ acknowledged)
                      /\ \A i \in InMail' : Lifted(i)' => acknowledged /\ seen # pending
                      /\ \A i, j \in InMail' :
                           Prompted(i)' /\ (Prompted(j)' \/ Lifted(j)') => j <= i
                      /\ \A i, j \in InMail' : Lifted(i)' /\ Lifted(j)' => i = j
    OBVIOUS
  <2>1. \A i \in InMail' : /\ Prompted(i)' => mail'[i].of = pending /\ (seen = 0 \/ acknowledged)
                           /\ Lifted(i)' => acknowledged /\ seen # pending
    BY <1>4 DEF PromptsFollow
  <2>2. ASSUME NEW i \in InMail', NEW j \in InMail', Prompted(i)', Prompted(j)' \/ Lifted(j)'
        PROVE  j <= i
    <3>1. j + 1 <= i + 1
      BY <1>4, <2>2 DEF PromptsFollow
    <3> QED
      BY <3>1, <1>4
  <2>3. ASSUME NEW i \in InMail', NEW j \in InMail', Lifted(i)', Lifted(j)' PROVE i = j
    <3>1. i + 1 = j + 1
      BY <1>4, <2>3 DEF PromptsFollow
    <3> QED
      BY <3>1, <1>4
  <2> QED
    BY <2>1, <2>2, <2>3
<1>10. ASSUME UNCHANGED <<seen, acknowledged, sinceSeen>>, ~Prompted(1), ~Lifted(1)
       PROVE  PromptsFollow' /\ AcksFollow'
  <2>1. (\E i \in InMail : Prompted(i)) => \E i \in InMail' : Prompted(i)'
    BY <1>5, <1>10
  <2>2. PromptsFollow'
    BY <1>1, <1>9, <1>10, <2>1 DEF PromptsFollow
  <2>3. AcksFollow'
    BY <1>1, <1>2, <1>4, <1>10 DEF AcksFollow, Acked
  <2> QED
    BY <2>2, <2>3
\* When the head is not the last word on the prompt, the last word is not touched.
<1>11. ASSUME current', \A i \in InMail' : ~Ended(i)', UNCHANGED current, ~Ended(1),
              NEW i \in InMail', Prompted(i)' \/ Lifted(i)',
              \A j \in InMail' : j > i => ~Prompted(j)' /\ ~Lifted(j)'
       PROVE  pending' = mail'[i].of
  <2>1. \A j \in InMail : ~Ended(j)
    BY <1>5, <1>11
  <2>2. \A j \in InMail : j > i + 1 => ~Prompted(j) /\ ~Lifted(j)
    <3> SUFFICES ASSUME NEW j \in InMail, j > i + 1 PROVE ~Prompted(j) /\ ~Lifted(j)
      OBVIOUS
    <3>1. i \in Nat /\ j \in Nat /\ j # 1
      BY <1>3, <1>4
    <3>2. j - 1 > i
      BY <3>1
    <3> QED
      BY <3>1, <3>2, <1>5, <1>11
  <2>3. i + 1 \in InMail /\ (Prompted(i + 1) \/ Lifted(i + 1)) /\ mail'[i] = mail[i + 1]
    BY <1>4, <1>11
  <2>4. pending = mail[i + 1].of
    BY <1>11, <2>1, <2>2, <2>3 DEF CopyFollows
  <2> QED
    BY <1>1, <2>3, <2>4
<1>12. ASSUME UNCHANGED <<current, seen>>, ~Prompted(1), ~Lifted(1), ~Ended(1)
       PROVE  CopyFollows'
  <2>1. ASSUME current', \A i \in InMail' : ~Ended(i)',
               \A i \in InMail' : ~Prompted(i)' /\ ~Lifted(i)'
        PROVE  seen' = pending'
    BY <1>1, <1>5, <1>12, <2>1 DEF CopyFollows
  <2> QED
    BY <1>11, <1>12, <2>1 DEF CopyFollows
<1>13. CASE ~current /\ UNCHANGED main
  <2>1. UNCHANGED <<current, seen, acknowledged, sinceSeen, row>>
    BY <1>13 DEF main
  <2>2. ~on /\ (~stopped => agent = "over")
    BY <1>13 DEF GateLives
  <2>3. SessionTypes'
    BY <1>1, <1>6, <2>1 DEF SessionTypes, TypeOK
  <2>4. GateLives'
    BY <1>7, <1>13, <2>1
  <2>5. CopyFollows' /\ PromptsFollow' /\ AcksFollow'
    BY <1>1, <1>13, <2>1, <2>2 DEF CopyFollows, PromptsFollow, AcksFollow
  <2>6. RequestsFollow'
    BY <1>1, <1>4, <2>1, <2>2 DEF RequestsFollow
  <2>7. DecisionsFollow'
    BY <1>1, <1>2, <2>1 DEF DecisionsFollow, Decided
  <2> QED
    BY <2>3, <2>4, <2>5, <2>6, <2>7
<1>14. CASE current /\ message.type = "attention_required" /\ seen' = message.of
            /\ acknowledged' = FALSE /\ sinceSeen' = 0 /\ UNCHANGED <<current, row>>
  <2>1. /\ Prompted(1) /\ ~Requested(1) /\ ~Ended(1) /\ seen' = mail[1].of
        /\ mail[1].of \in 1..prompts
    BY <1>3, <1>14 DEF Prompted, Requested, Ended, SessionTypes
  <2>2. SessionTypes'
    <3>1. seen' \in 0..prompts' /\ sinceSeen' \in 0..Hold /\ acknowledged' = FALSE
      BY <1>1, <1>14, <2>1, PresenceAssumption DEF SessionTypes, TypeOK
    <3> QED
      BY <1>1, <1>6, <1>14, <3>1 DEF SessionTypes, TypeOK
  <2>3. GateLives' /\ RequestsFollow' /\ DecisionsFollow'
    BY <1>7, <1>8, <1>14, <2>1
  <2>4. on => pending = mail[1].of /\ \A i \in InMail' : ~Prompted(i)' /\ ~Lifted(i)'
    <3> SUFFICES ASSUME on
                 PROVE  pending = mail[1].of /\ \A i \in InMail' : ~Prompted(i)' /\ ~Lifted(i)'
      OBVIOUS
    <3>1. /\ pending = mail[1].of
          /\ \A i \in InMail : Prompted(i) \/ Lifted(i) => i <= 1
      BY <1>3, <2>1 DEF PromptsFollow
    <3> QED
      BY <1>4, <3>1
  <2>5. PromptsFollow'
    BY <1>1, <1>14, <2>1, <2>4 DEF PromptsFollow, SessionTypes, TypeOK
  <2>6. AcksFollow'
    BY <1>1, <1>2, <1>3, <2>1 DEF AcksFollow, Acked
  <2>7. CopyFollows'
    <3>1. ASSUME \A i \in InMail' : ~Ended(i)', \A i \in InMail' : ~Prompted(i)' /\ ~Lifted(i)'
          PROVE  seen' = pending'
      <4>1. \A j \in InMail : ~Ended(j) /\ (j > 1 => ~Prompted(j) /\ ~Lifted(j))
        BY <1>5, <2>1, <3>1
      <4>2. pending = mail[1].of
        BY <1>3, <1>14, <2>1, <4>1 DEF CopyFollows
      <4> QED
        BY <1>1, <2>1, <4>2
    <3> QED
      BY <1>11, <1>14, <2>1, <3>1 DEF CopyFollows
  <2> QED
    BY <2>2, <2>3, <2>5, <2>6, <2>7
<1>15. CASE current /\ message.type = "presence.cleared" /\ PresenceForgotten
            /\ UNCHANGED <<current, sinceSeen, row>>
  <2>1. /\ Lifted(1) /\ ~Prompted(1) /\ ~Requested(1) /\ ~Ended(1) /\ mail[1].of = 0
        /\ seen' = 0 /\ acknowledged' = FALSE
    BY <1>3, <1>15
       DEF Lifted, Prompted, Requested, Ended, SessionTypes, PresenceForgotten
  <2>2. SessionTypes'
    <3>1. seen' \in 0..prompts'
      BY <1>1, <2>1, PresenceAssumption DEF SessionTypes, TypeOK
    <3> QED
      BY <1>1, <1>6, <1>15, <2>1, <3>1 DEF SessionTypes, TypeOK
  <2>3. GateLives' /\ RequestsFollow' /\ DecisionsFollow'
    BY <1>7, <1>8, <1>15, <2>1
  <2>4. on => /\ \A i \in InMail' : ~Lifted(i)'
              /\ pending # 0 => \E i \in InMail' : Prompted(i)'
    <3> SUFFICES ASSUME on
                 PROVE  /\ \A i \in InMail' : ~Lifted(i)'
                        /\ pending # 0 => \E i \in InMail' : Prompted(i)'
      OBVIOUS
    <3>1. seen # pending /\ \A i \in InMail : Lifted(i) => i = 1
      BY <1>3, <2>1 DEF PromptsFollow
    <3>2. pending # 0 => \E i \in InMail : Prompted(i) /\ i # 1
      BY <2>1, <3>1 DEF PromptsFollow
    <3> QED
      BY <1>4, <1>5, <3>1, <3>2
  <2>5. PromptsFollow'
    BY <1>1, <1>9, <2>1, <2>4 DEF PromptsFollow
  <2>6. AcksFollow'
    BY <1>1, <1>2, <1>3, <2>1 DEF AcksFollow, Acked
  <2>7. CopyFollows'
    <3>1. ASSUME \A i \in InMail' : ~Ended(i)', \A i \in InMail' : ~Prompted(i)' /\ ~Lifted(i)'
          PROVE  seen' = pending'
      BY <1>1, <1>3, <1>5, <1>15, <2>1, <3>1 DEF CopyFollows
    <3> QED
      BY <1>11, <1>15, <2>1, <3>1 DEF CopyFollows
  <2> QED
    BY <2>2, <2>3, <2>5, <2>6, <2>7
<1>16. CASE current /\ message.type = "approval.request"
            /\ row' = [row EXCEPT ![message.of] = "pending"]
            /\ UNCHANGED <<current, seen, acknowledged, sinceSeen>>
  <2>1. /\ Requested(1) /\ ~Lifted(1) /\ ~Prompted(1) /\ ~Ended(1)
        /\ mail[1].of \in 1..asked /\ row' = [row EXCEPT ![mail[1].of] = "pending"]
    BY <1>3, <1>16 DEF Lifted, Prompted, Requested, Ended, SessionTypes
  <2>2. /\ row \in [1..MaxApprovals -> {"none", "pending", "decided", "denied"}]
        /\ asked \in 0..MaxApprovals
    BY DEF SessionTypes, TypeOK
  <2>3. mail[1].of \in 1..MaxApprovals
    BY <2>1, <2>2, PresenceAssumption
  <2>4. \A a \in 1..MaxApprovals : row'[a] = IF a = mail[1].of THEN "pending" ELSE row[a]
    BY <2>1, <2>2
  <2>5. SessionTypes'
    <3>1. row' \in [1..MaxApprovals -> {"none", "pending", "decided", "denied"}]
      BY <2>1, <2>2
    <3> QED
      BY <1>1, <1>6, <1>16, <3>1 DEF SessionTypes, TypeOK
  <2>6. GateLives' /\ CopyFollows' /\ PromptsFollow' /\ AcksFollow'
    BY <1>7, <1>10, <1>12, <1>16, <2>1
  <2>7. ~stopped => /\ agent = "asking" /\ mail[1].of = asked /\ row[asked] = "none"
                    /\ \A i \in InMail' : ~Prompted(i)' /\ ~Requested(i)'
    <3> SUFFICES ASSUME ~stopped
                 PROVE  /\ agent = "asking" /\ mail[1].of = asked /\ row[asked] = "none"
                        /\ \A i \in InMail' : ~Prompted(i)' /\ ~Requested(i)'
      OBVIOUS
    <3>1. /\ agent = "asking" /\ mail[1].of = asked /\ row[asked] = "none"
          /\ \A j \in InMail : Prompted(j) => j < 1
          /\ \A j \in InMail : Requested(j) => j = 1
      BY <1>3, <2>1 DEF RequestsFollow
    <3>2. \A i \in InMail' : i \in Nat /\ ~(i + 1 < 1)
      BY DEF InMail
    <3> QED
      BY <1>4, <3>1, <3>2
  <2>8. RequestsFollow'
    <3>1. \A a \in 1..MaxApprovals : a > asked => row'[a] = "none"
      BY <2>1, <2>2, <2>4 DEF RequestsFollow
    <3>2. ~stopped => \A a \in 1..MaxApprovals : row'[a] = "pending" => agent = "asking" /\ asked = a
      BY <2>4, <2>7 DEF RequestsFollow
    <3> QED
      BY <1>1, <2>7, <3>1, <3>2 DEF RequestsFollow
  <2>9. DecisionsFollow'
    BY <1>1, <1>2, <2>7 DEF DecisionsFollow, Decided
  <2> QED
    BY <2>5, <2>6, <2>8, <2>9
<1>17. CASE current /\ message.type = "end" /\ current' = FALSE
            /\ row' = [a \in 1..MaxApprovals |-> IF row[a] = "pending" THEN "denied" ELSE row[a]]
            /\ UNCHANGED <<seen, acknowledged, sinceSeen>>
  <2>1. Ended(1)
    BY <1>3, <1>17 DEF Ended
  <2>2. ~on /\ (~stopped => agent = "over")
    BY <1>3, <2>1 DEF GateLives
  <2>3. /\ row \in [1..MaxApprovals -> {"none", "pending", "decided", "denied"}]
        /\ row' \in [1..MaxApprovals -> {"none", "pending", "decided", "denied"}]
        /\ \A a \in 1..MaxApprovals : row'[a] # "pending" /\ (row[a] = "none" => row'[a] = "none")
    BY <1>17 DEF SessionTypes, TypeOK
  <2>4. SessionTypes'
    BY <1>1, <1>6, <1>17, <2>3 DEF SessionTypes, TypeOK
  <2>5. GateLives'
    BY <1>1, <2>2 DEF GateLives
  <2>6. CopyFollows' /\ PromptsFollow' /\ AcksFollow'
    BY <1>1, <1>17, <2>2 DEF CopyFollows, PromptsFollow, AcksFollow
  <2>7. RequestsFollow'
    BY <1>1, <1>4, <2>2, <2>3 DEF RequestsFollow
  <2>8. DecisionsFollow'
    BY <1>1, <1>2, <2>2 DEF DecisionsFollow, Decided
  <2> QED
    BY <2>4, <2>5, <2>6, <2>7, <2>8
<1> QED
  BY <1>13, <1>14, <1>15, <1>16, <1>17 DEF Hears, message

\* An acknowledgement is sent once, and only of the prompt the gate still has.
LEMMA AcknowledgesOnceSession == SessionInv /\ AcknowledgePresence => SessionInv'
<1> SUFFICES ASSUME SessionInv, AcknowledgePresence PROVE SessionInv'
  OBVIOUS
<1> USE DEF SessionInv
<1> DEFINE ack == Message("presence-ack", seen)
<1>1. /\ current /\ Len(post) < MaxPost /\ seen # 0 /\ ~acknowledged /\ sinceSeen >= Hold
      /\ acknowledged' = TRUE /\ post' = Append(post, ack)
      /\ UNCHANGED <<on, pending, left, paused, sinceIssue, prompts, agent, woken, stopped,
                     asked, current, seen, sinceSeen, row, mail, worked>>
  BY DEF AcknowledgePresence, CanPost, gate, session
<1>2. InMail' = InMail
  BY <1>1 DEF InMail
<1>3. ack \in PostMessages /\ ack.type = "presence-ack" /\ ack.of = seen
  BY DEF Message, PostMessages, SessionTypes, TypeOK
<1> HIDE DEF ack
<1>4. /\ post' \in Seq(PostMessages) /\ Len(post') <= MaxPost
      /\ InPost' = InPost \cup {Len(post) + 1}
      /\ \A i \in InPost : /\ i \in Nat /\ i < Len(post) + 1 /\ post'[i] = post[i]
                           /\ Reached(i)' <=> Reached(i)
      /\ Len(post) + 1 \in Nat /\ post'[Len(post) + 1] = ack
  BY <1>1, <1>3, PostGrows DEF SessionTypes
<1>5. on => /\ \A i \in InPost : ~Acked(i)
            /\ seen = pending /\ sinceIssue >= Hold
            /\ \A j \in InMail : ~Prompted(j) /\ ~Lifted(j)
  <2> SUFFICES ASSUME on
               PROVE  /\ \A i \in InPost : ~Acked(i)
                      /\ seen = pending /\ sinceIssue >= Hold
                      /\ \A j \in InMail : ~Prompted(j) /\ ~Lifted(j)
    OBVIOUS
  <2>1. \A i \in InPost : ~Acked(i)
    BY <1>1 DEF AcksFollow
  <2>2. seen = pending /\ sinceSeen <= sinceIssue
    BY <1>1 DEF PromptsFollow
  <2>3. sinceIssue >= Hold
    BY <1>1, <2>2, PresenceAssumption DEF SessionTypes, TypeOK
  <2>4. \A j \in InMail : ~Prompted(j) /\ ~Lifted(j)
    BY <1>1 DEF PromptsFollow
  <2> QED
    BY <2>1, <2>2, <2>3, <2>4
<1>6. SessionTypes'
  BY <1>1, <1>2, <1>4 DEF SessionTypes, TypeOK, Prompted, Lifted, Requested
<1>7. GateLives' /\ CopyFollows' /\ PromptsFollow'
  BY <1>1, <1>2, <1>5 DEF GateLives, CopyFollows, PromptsFollow, Prompted, Lifted, Ended
<1>8. AcksFollow'
  <2>1. \A i \in InPost' : on /\ Acked(i)' => i = Len(post) + 1
    BY <1>4, <1>5 DEF Acked
  <2>2. \A i \in InMail' : (Prompted(i)' <=> Prompted(i)) /\ (Lifted(i)' <=> Lifted(i))
    BY <1>1 DEF Prompted, Lifted
  <2> QED
    BY <1>1, <1>2, <1>3, <1>4, <1>5, <2>1, <2>2 DEF AcksFollow
<1>9. RequestsFollow'
  BY <1>1, <1>2 DEF RequestsFollow, Prompted, Requested
<1>10. DecisionsFollow'
  <2>1. \A i \in InPost' : Decided(i)' => i \in InPost /\ Decided(i) /\ post'[i] = post[i]
    BY <1>3, <1>4 DEF Decided
  <2> QED
    BY <1>1, <2>1 DEF DecisionsFollow
<1> QED
  BY <1>6, <1>7, <1>8, <1>9, <1>10

\* An approval is decided once, and while nothing is asked of the user.
LEMMA ResolvesSession ==
  ASSUME SessionInv, NEW a \in 1..MaxApprovals, ResolveApproval(a)
  PROVE  SessionInv'
<1> USE DEF SessionInv
<1> DEFINE decision == Message("approval", a)
<1>1. /\ current /\ Len(post) < MaxPost /\ row[a] = "pending" /\ seen = 0
      /\ row' = [row EXCEPT ![a] = "decided"] /\ post' = Append(post, decision)
      /\ UNCHANGED <<on, pending, left, paused, sinceIssue, prompts, agent, woken, stopped,
                     asked, current, seen, acknowledged, sinceSeen, mail, worked>>
  BY DEF ResolveApproval, CanPost, gate, session
<1>2. InMail' = InMail
  BY <1>1 DEF InMail
<1>3. decision \in PostMessages /\ decision.type = "approval" /\ decision.of = a
  BY DEF Message, PostMessages
<1> HIDE DEF decision
<1>4. /\ post' \in Seq(PostMessages) /\ Len(post') <= MaxPost
      /\ InPost' = InPost \cup {Len(post) + 1}
      /\ \A i \in InPost : /\ i \in Nat /\ i < Len(post) + 1 /\ post'[i] = post[i]
                           /\ Reached(i)' <=> Reached(i)
      /\ Len(post) + 1 \in Nat /\ post'[Len(post) + 1] = decision
  BY <1>1, <1>3, PostGrows DEF SessionTypes
<1>5. /\ row' \in [1..MaxApprovals -> {"none", "pending", "decided", "denied"}]
      /\ \A b \in 1..MaxApprovals : row'[b] = IF b = a THEN "decided" ELSE row[b]
  BY <1>1 DEF SessionTypes, TypeOK
<1>6. ~stopped => /\ agent = "asking" /\ asked = a /\ pending = 0
                  /\ \A i \in InPost : ~Decided(i)
                  /\ \A i \in InMail : ~Requested(i)
  <2> SUFFICES ASSUME ~stopped
               PROVE  /\ agent = "asking" /\ asked = a /\ pending = 0
                      /\ \A i \in InPost : ~Decided(i)
                      /\ \A i \in InMail : ~Requested(i)
    OBVIOUS
  <2>1. agent = "asking" /\ asked = a
    BY <1>1 DEF RequestsFollow
  <2>2. /\ \A i \in InMail : ~Prompted(i) /\ ~Requested(i)
        /\ \A i \in InPost : ~Decided(i)
    BY <1>1, <2>1 DEF RequestsFollow, DecisionsFollow
  <2>3. pending = 0
    BY <1>1, <2>1, <2>2 DEF GateLives, PromptsFollow
  <2> QED
    BY <2>1, <2>2, <2>3
<1>7. SessionTypes'
  BY <1>1, <1>2, <1>4, <1>5 DEF SessionTypes, TypeOK, Prompted, Lifted, Requested
<1>8. GateLives' /\ CopyFollows' /\ PromptsFollow'
  BY <1>1, <1>2 DEF GateLives, CopyFollows, PromptsFollow, Prompted, Lifted, Ended
<1>9. AcksFollow'
  <2>1. \A i \in InPost' : Acked(i)' => i \in InPost /\ Acked(i) /\ post'[i] = post[i]
    BY <1>3, <1>4 DEF Acked
  <2>2. \A i \in InMail' : (Prompted(i)' <=> Prompted(i)) /\ (Lifted(i)' <=> Lifted(i))
    BY <1>1 DEF Prompted, Lifted
  <2> QED
    BY <1>1, <1>2, <2>1, <2>2 DEF AcksFollow
<1>10. RequestsFollow'
  <2>1. \A i \in InMail' : (Prompted(i)' <=> Prompted(i)) /\ (Requested(i)' <=> Requested(i))
    BY <1>1 DEF Prompted, Requested
  <2>2. \A b \in 1..MaxApprovals : b > asked => row'[b] = "none"
    <3>1. asked \in Nat /\ row[a] # "none"
      BY <1>1 DEF SessionTypes, TypeOK
    <3> QED
      BY <1>5, <3>1 DEF RequestsFollow
  <2>3. agent = "asking" /\ ~stopped => \A j \in InMail : ~Prompted(j)
    BY <1>1, <1>6 DEF RequestsFollow
  <2> QED
    BY <1>1, <1>2, <1>5, <1>6, <2>1, <2>2, <2>3 DEF RequestsFollow
<1>11. DecisionsFollow'
  <2>1. \A i \in InPost' : ~stopped /\ Decided(i)' => i = Len(post) + 1
    BY <1>4, <1>6 DEF Decided
  <2> QED
    BY <1>1, <1>3, <1>4, <1>5, <1>6, <2>1 DEF DecisionsFollow
<1> QED
  BY <1>7, <1>8, <1>9, <1>10, <1>11

\* An input or a stop says nothing of prompts, and a stop settles what is pending.
LEMMA PostsSession == SessionInv /\ (Input \/ Stop) => SessionInv'
<1> SUFFICES ASSUME SessionInv, NEW m \in {Message("input", 0), Message("stop", 0)},
                    CanPost, post' = Append(post, m),
                    \/ UNCHANGED row
                    \/ row' = [a \in 1..MaxApprovals |->
                                 IF row[a] = "pending" THEN "denied" ELSE row[a]],
                    UNCHANGED <<gate, session, current, seen, acknowledged, sinceSeen, mail,
                                worked>>
             PROVE  SessionInv'
  BY DEF Input, Stop, main
<1> USE DEF SessionInv
<1>1. UNCHANGED <<on, pending, left, paused, sinceIssue, prompts, agent, woken, stopped,
                  asked>>
  BY DEF gate, session
<1>2. InMail' = InMail
  BY DEF InMail
<1>3. m \in PostMessages /\ m.type \in {"input", "stop"}
  BY DEF Message, PostMessages
<1>4. /\ post' \in Seq(PostMessages) /\ Len(post') <= MaxPost
      /\ InPost' = InPost \cup {Len(post) + 1}
      /\ \A i \in InPost : /\ i \in Nat /\ i < Len(post) + 1 /\ post'[i] = post[i]
                           /\ Reached(i)' <=> Reached(i)
      /\ Len(post) + 1 \in Nat /\ post'[Len(post) + 1] = m
  BY <1>3, PostGrows DEF SessionTypes, CanPost
<1>5. /\ row \in [1..MaxApprovals -> {"none", "pending", "decided", "denied"}]
      /\ row' \in [1..MaxApprovals -> {"none", "pending", "decided", "denied"}]
      /\ \A a \in 1..MaxApprovals :
           /\ row'[a] = "pending" => row[a] = "pending"
           /\ row[a] \in {"none", "decided"} => row'[a] = row[a]
           /\ row'[a] = "none" <=> row[a] = "none"
  BY DEF SessionTypes, TypeOK
<1>6. \A i \in InPost' : /\ Acked(i)' => i \in InPost /\ Acked(i) /\ post'[i] = post[i]
                         /\ Decided(i)' => i \in InPost /\ Decided(i) /\ post'[i] = post[i]
  BY <1>3, <1>4 DEF Acked, Decided
<1>7. SessionTypes'
  BY <1>1, <1>2, <1>4, <1>5 DEF SessionTypes, TypeOK, Prompted, Lifted, Requested
<1>8. GateLives' /\ CopyFollows' /\ PromptsFollow'
  BY <1>1, <1>2 DEF GateLives, CopyFollows, PromptsFollow, Prompted, Lifted, Ended
<1>9. \A i \in InMail' : /\ Prompted(i)' <=> Prompted(i)
                         /\ Lifted(i)' <=> Lifted(i)
                         /\ Requested(i)' <=> Requested(i)
  BY DEF Prompted, Lifted, Requested
<1>10. AcksFollow'
  BY <1>1, <1>2, <1>6, <1>9 DEF AcksFollow
<1>11. RequestsFollow'
  BY <1>1, <1>2, <1>5, <1>9 DEF RequestsFollow
<1>12. DecisionsFollow'
  <2>1. ~stopped /\ (\E i \in InPost : Decided(i)) => row'[asked] = "decided"
    BY <1>5 DEF DecisionsFollow, RequestsFollow
  <2> QED
    BY <1>1, <1>6, <2>1 DEF DecisionsFollow
<1> QED
  BY <1>7, <1>8, <1>10, <1>11, <1>12

\* Every step of the gate, the session, the supervisor and the clock.
LEMMA StepSession == SessionInv /\ [Next]_vars => SessionInv'
<1> SUFFICES ASSUME SessionInv, [Next]_vars PROVE SessionInv'
  OBVIOUS
<1>2. CASE TimerFires
  <2>1. PostTaken /\ woken' \in BOOLEAN
    BY <1>2 DEF TimerFires, session, PostTaken, SessionInv, SessionTypes, TypeOK
  <2> QED
    BY <1>2, <2>1, CheckedSession DEF TimerFires, session
<1>3. CASE Boundary
  <2>1. PostTaken /\ woken' \in BOOLEAN
    BY <1>3 DEF Boundary, PostTaken
  <2> QED
    BY <1>3, <2>1, CheckedSession DEF Boundary
<1>4. CASE TakesInput
  <2>1. PostTaken /\ woken' \in BOOLEAN
    BY <1>4
       DEF TakesInput, Receives, session, PostTaken, SessionInv, SessionTypes, TypeOK
  <2> QED
    BY <1>4, <2>1, CheckedSession DEF TakesInput, session
<1>5. CASE UNCHANGED vars
  <2> USE <1>5 DEF vars, gate, session, main, SessionInv
  <2>1. /\ InMail' = InMail /\ InPost' = InPost
        /\ \A i : (Prompted(i)' <=> Prompted(i)) /\ (Lifted(i)' <=> Lifted(i))
        /\ \A i : (Requested(i)' <=> Requested(i)) /\ (Ended(i)' <=> Ended(i))
        /\ \A i : (Acked(i)' <=> Acked(i)) /\ (Decided(i)' <=> Decided(i))
    BY DEF InMail, InPost, Prompted, Lifted, Requested, Ended, Reached, Acked, Decided
  <2>2. SessionTypes'
    BY <2>1 DEF SessionTypes, TypeOK
  <2>3. GateLives' /\ CopyFollows' /\ PromptsFollow'
    BY <2>1 DEF GateLives, CopyFollows, PromptsFollow
  <2>4. AcksFollow' /\ RequestsFollow' /\ DecisionsFollow'
    BY <2>1 DEF AcksFollow, RequestsFollow, DecisionsFollow
  <2> QED
    BY <2>2, <2>3, <2>4
<1> QED
  BY <1>2, <1>3, <1>4, <1>5, TickSession, GoesOnSession, AsksSession, EndsSession,
     StopsSession, AcknowledgesSession, TakesDecisionSession, HearsSession,
     AcknowledgesOnceSession, ResolvesSession, PostsSession
     DEF Next

\* The prompts, acknowledgements and decisions of the two processes never get out of
\* step, however many messages are on their way and however long they take: a recorded
\* decision is taken by the tool that waits for it, a recorded acknowledgement is
\* accepted, and the supervisor's copy of the prompt is the gate's.
THEOREM ProcessesAgree == Spec => []SessionAgrees
  BY InitSession, StepSession, SessionInvAgrees, PTL DEF Spec

-----------------------------------------------------------------------------
(* The chats and whom they delegate to.                                       *)
Chats == DOMAIN del_threads
ChatRows ==
  [there : BOOLEAN, parent : Nat \cup {None}, fork : BOOLEAN, mayDelegate : BOOLEAN,
   archived : BOOLEAN, status : {"idle", "running", "interrupted"}, done : BOOLEAN]

ChatTypes ==
  /\ \E n \in Nat : Chats = 1..n
  /\ del_threads \in [Chats -> ChatRows]
  /\ DOMAIN del_starting = Chats
  /\ DOMAIN del_line = Chats
  /\ del_live \subseteq Chats

\* A chat with a turn is there, and no start of it is under way.
TurnsHaveChats ==
  \A t \in del_live : del_threads[t].there /\ del_starting[t] = None

\* f says of each chat whether it was delegated or comes from one that was.
Descends(f, t) ==
  \/ del_line[t].by = "delegate"
  \/ (del_line[t].by = "fork" /\ f[del_line[t].from])
Tells(f) == f = [t \in Chats |-> Descends(f, t)]

\* Who was made of another chat comes after it, so that there is such an f; and it gives the
\* right to delegate to nobody.
LinesGoBack ==
  \A c \in Chats : del_line[c].by \in {"delegate", "fork"} => del_line[c].from \in 1..(c - 1)

DelegatedMayNot ==
  /\ \E f : Tells(f)
  /\ \A f : Tells(f) =>
       \A t \in Chats : /\ f[t] => ~del_threads[t].mayDelegate
                        /\ del_line[t].by = "delegate" => ~f[del_line[t].from]

DelegationInv == ChatTypes /\ TurnsHaveChats /\ LinesGoBack /\ DelegatedMayNot

LEMMA DelegatingCardinality == \A S : Delegating!Cardinality(S) = Cardinality(S)
BY DEF Delegating!Cardinality, Cardinality

LEMMA InitDelegation == Delegating!Init => DelegationInv
<1> SUFFICES ASSUME Delegating!Init PROVE DelegationInv
  OBVIOUS
<1>1. /\ del_threads = <<Delegating!Thread(None, FALSE, TRUE)>> /\ del_starting = <<None>>
      /\ del_live = {} /\ del_line = <<[by |-> "user", from |-> None]>>
  BY DEF Delegating!Init
<1>2. Chats = {1} /\ {1} = 1..1 /\ DOMAIN del_starting = {1} /\ DOMAIN del_line = {1}
  BY <1>1 DEF Chats
<1>3. del_threads \in [Chats -> ChatRows]
  <2>1. del_threads[1] \in ChatRows
    BY <1>1 DEF Delegating!Thread, ChatRows
  <2>2. ASSUME NEW r, r \in ChatRows PROVE <<r>> \in [{1} -> ChatRows]
    BY <1>2, <2>2
  <2> QED BY <1>1, <1>2, <2>1, <2>2
<1>4. ChatTypes /\ TurnsHaveChats
  BY <1>1, <1>2, <1>3 DEF ChatTypes, TurnsHaveChats
<1>5. \A c \in Chats : del_line[c].by = "user"
  BY <1>1, <1>2
<1>6. LinesGoBack
  BY <1>5 DEF LinesGoBack
<1>7. DelegatedMayNot
  <2>1. Tells([t \in Chats |-> FALSE])
    <3>1. ASSUME NEW f, NEW t \in Chats PROVE Descends(f, t) = FALSE
      BY <1>5 DEF Descends
    <3> QED BY <3>1 DEF Tells
  <2>2. ASSUME NEW f, Tells(f), NEW t \in Chats PROVE ~f[t]
    <3>1. f[t] = Descends(f, t)
      BY <2>2 DEF Tells
    <3> QED BY <1>5, <3>1 DEF Descends
  <2> QED BY <1>5, <2>1, <2>2 DEF DelegatedMayNot
<1> QED BY <1>4, <1>6, <1>7 DEF DelegationInv

\* A step that makes no chat and gives no right.
LEMMA NoNewChat ==
  ASSUME LinesGoBack, DelegatedMayNot, Chats' = Chats, del_line' = del_line,
         \A t \in Chats : del_threads'[t].mayDelegate = del_threads[t].mayDelegate
  PROVE  LinesGoBack' /\ DelegatedMayNot'
<1>1. LinesGoBack'
  BY DEF LinesGoBack
<1>2. \A f : Tells(f)' <=> Tells(f)
  BY DEF Tells, Descends
<1>3. \E f : Tells(f)'
  BY <1>2 DEF DelegatedMayNot
<1>4. ASSUME NEW f, Tells(f)', NEW t \in Chats'
      PROVE  /\ f[t] => ~del_threads'[t].mayDelegate
             /\ del_line'[t].by = "delegate" => ~f[del_line'[t].from]
  BY <1>2, <1>4 DEF DelegatedMayNot
<1> QED BY <1>1, <1>3, <1>4 DEF DelegatedMayNot

\* What a chat becomes: a change of some fields of one row.
LEMMA RowChanges ==
  ASSUME NEW r \in ChatRows, NEW s \in {"idle", "running", "interrupted"}
  PROVE  /\ [r EXCEPT !.status = s] \in ChatRows
         /\ [r EXCEPT !.status = s].mayDelegate = r.mayDelegate
         /\ [r EXCEPT !.status = s].there = r.there
         /\ [r EXCEPT !.status = s, !.done = TRUE] \in ChatRows
         /\ [r EXCEPT !.status = s, !.done = TRUE].mayDelegate = r.mayDelegate
         /\ [r EXCEPT !.status = s, !.done = TRUE].there = r.there
         /\ [r EXCEPT !.archived = TRUE] \in ChatRows
         /\ [r EXCEPT !.archived = TRUE].mayDelegate = r.mayDelegate
         /\ [r EXCEPT !.archived = TRUE].there = r.there
         /\ [r EXCEPT !.there = FALSE, !.parent = None] \in ChatRows
         /\ [r EXCEPT !.there = FALSE, !.parent = None].mayDelegate = r.mayDelegate
         /\ [r EXCEPT !.parent = None, !.fork = FALSE] \in ChatRows
         /\ [r EXCEPT !.parent = None, !.fork = FALSE].mayDelegate = r.mayDelegate
         /\ [r EXCEPT !.parent = None, !.fork = FALSE].there = r.there
BY DEF ChatRows

\* The row of one chat changes, and the step makes no chat.
LEMMA OneRowChanges ==
  ASSUME DelegationInv, NEW t \in Chats, NEW r \in ChatRows,
         r.mayDelegate = del_threads[t].mayDelegate,
         del_threads' = [del_threads EXCEPT ![t] = r], del_line' = del_line,
         DOMAIN del_starting' = Chats, del_live' \subseteq Chats,
         \A u \in del_live' : /\ del_starting'[u] = None
                              /\ u # t => u \in del_live
                              /\ u = t => r.there
  PROVE  DelegationInv'
<1>1. Chats' = Chats /\ del_threads' \in [Chats -> ChatRows]
  BY DEF DelegationInv, ChatTypes, Chats
<1>2. del_threads'[t] = r /\ \A u \in Chats : u # t => del_threads'[u] = del_threads[u]
  BY DEF DelegationInv, ChatTypes, Chats
<1>3. ChatTypes'
  BY <1>1 DEF DelegationInv, ChatTypes
<1>4. TurnsHaveChats'
  BY <1>1, <1>2 DEF DelegationInv, TurnsHaveChats
<1>5. LinesGoBack' /\ DelegatedMayNot'
  BY <1>1, <1>2, NoNewChat DEF DelegationInv
<1> QED BY <1>3, <1>4, <1>5 DEF DelegationInv

\* A new chat: one that another delegates to has no right to delegate, and a fork has the
\* right of the chat it is made of.
LEMMA NewChatDelegation ==
  ASSUME DelegationInv, NEW t \in Chats, NEW thread \in ChatRows, NEW at,
         NEW by \in {"delegate", "fork"}, Delegating!New(thread, by, t, at),
         by = "delegate" => ~thread.mayDelegate /\ del_threads[t].mayDelegate,
         by = "fork" => thread.mayDelegate = del_threads[t].mayDelegate,
         UNCHANGED del_live
  PROVE  DelegationInv'
<1>1. PICK n \in Nat : Chats = 1..n
  BY DEF DelegationInv, ChatTypes
<1>2. Cardinality(Chats) = n
  BY <1>1, FS_Interval
<1> DEFINE m == n + 1
<1>3. /\ del_threads' = [i \in 1..m |-> IF i = m THEN thread ELSE del_threads[i]]
      /\ del_starting' = [i \in 1..m |-> IF i = m THEN at ELSE del_starting[i]]
      /\ del_line' = [i \in 1..m |->
                        IF i = m THEN [by |-> by, from |-> t] ELSE del_line[i]]
  BY <1>2, DelegatingCardinality DEF Delegating!New, Delegating!Made, Chats
<1>4. /\ m \in Nat /\ Chats' = 1..m /\ t \in 1..n /\ m \notin 1..n
      /\ \A i \in 1..m : i = m \/ i \in 1..n
      /\ 1..n \subseteq 1..m /\ m \in 1..m /\ t \in 1..(m - 1)
  BY <1>1, <1>3 DEF Chats
<1> HIDE DEF m
<1>5. /\ del_threads'[m] = thread /\ del_line'[m].by = by /\ del_line'[m].from = t
      /\ \A i \in 1..n : /\ del_threads'[i] = del_threads[i] /\ del_line'[i] = del_line[i]
                         /\ del_starting'[i] = del_starting[i]
  BY <1>3, <1>4
<1>6. ChatTypes'
  <2>1. del_threads' \in [1..m -> ChatRows]
    <3>1. \A i \in 1..m : del_threads'[i] \in ChatRows
      BY <1>1, <1>4, <1>5 DEF DelegationInv, ChatTypes
    <3> QED BY <1>3, <3>1
  <2>2. DOMAIN del_starting' = 1..m /\ DOMAIN del_line' = 1..m /\ del_live' \subseteq 1..m
    BY <1>1, <1>3, <1>4 DEF DelegationInv, ChatTypes
  <2> QED BY <1>4, <2>1, <2>2 DEF ChatTypes
<1>7. TurnsHaveChats'
  <2>1. del_live \subseteq 1..n
    BY <1>1 DEF DelegationInv, ChatTypes
  <2> QED BY <1>5, <2>1 DEF DelegationInv, TurnsHaveChats
<1>8. LinesGoBack'
  <2>1. \A c \in 1..n : del_line[c].by \in {"delegate", "fork"} => del_line[c].from \in 1..(c - 1)
    BY <1>1 DEF DelegationInv, LinesGoBack
  <2> QED BY <1>4, <1>5, <2>1 DEF LinesGoBack
<1>9. ASSUME NEW i \in 1..n, del_line[i].by = "fork" PROVE del_line[i].from \in 1..n
  <2>1. del_line[i].from \in 1..(i - 1)
    BY <1>1, <1>9 DEF DelegationInv, LinesGoBack
  <2> QED BY <1>1, <2>1
<1> DEFINE own(f) == \/ by = "delegate"
                     \/ (by = "fork" /\ f[t])
<1>10. ASSUME NEW f, NEW g, \A i \in 1..n : f[i] = g[i]
       PROVE  /\ \A i \in 1..n : Descends(f, i)' = Descends(g, i)
              /\ Descends(f, m)' = own(g)
  <2>1. ASSUME NEW i \in 1..n PROVE Descends(f, i)' = Descends(g, i)
    <3>1. CASE del_line[i].by = "fork"
      <4>1. f[del_line[i].from] = g[del_line[i].from]
        BY <1>9, <1>10, <3>1
      <4> QED BY <1>5, <4>1 DEF Descends
    <3>2. CASE del_line[i].by # "fork"
      BY <1>5, <3>2 DEF Descends
    <3> QED BY <3>1, <3>2
  <2>2. Descends(f, m)' = own(g)
    BY <1>4, <1>5, <1>10 DEF Descends
  <2> QED BY <2>1, <2>2
<1> HIDE DEF own
<1>11. \E f : Tells(f)'
  <2>1. PICK g : Tells(g)
    BY DEF DelegationInv, DelegatedMayNot
  <2> DEFINE f == [i \in 1..m |-> IF i = m THEN own(g) ELSE g[i]]
  <2>2. f[m] = own(g) /\ \A i \in 1..n : f[i] = g[i]
    BY <1>4
  <2>3. \A i \in 1..n : g[i] = Descends(g, i)
    BY <1>1, <2>1 DEF Tells
  <2>4. f = [i \in 1..m |-> f[i]]
    OBVIOUS
  <2> HIDE DEF f
  <2>5. \A i \in 1..m : f[i] = Descends(f, i)'
    <3>1. (\A i \in 1..n : Descends(f, i)' = Descends(g, i)) /\ Descends(f, m)' = own(g)
      BY <1>10, <2>2
    <3>2. \A i \in 1..n : f[i] = Descends(f, i)'
      BY <2>2, <2>3, <3>1
    <3>3. \A i \in 1..m : i = m \/ i \in 1..n
      BY <1>4
    <3> QED BY <2>2, <3>1, <3>2, <3>3
  <2>6. Tells(f)'
    <3>1. f = [i \in 1..m |-> Descends(f, i)']
      BY <2>4, <2>5
    <3> QED BY <1>4, <3>1 DEF Tells
  <2> QED BY <2>6
<1>12. ASSUME NEW f, Tells(f)', NEW i \in 1..m
       PROVE  /\ f[i] => ~del_threads'[i].mayDelegate
              /\ del_line'[i].by = "delegate" => ~f[del_line'[i].from]
  <2> DEFINE g == [j \in 1..n |-> f[j]]
  <2>1. \A j \in 1..n : g[j] = f[j]
    OBVIOUS
  <2>2. g = [j \in 1..n |-> g[j]]
    OBVIOUS
  <2> HIDE DEF g
  <2>3. \A j \in 1..m : f[j] = Descends(f, j)'
    BY <1>4, <1>12 DEF Tells
  <2>4. \A j \in 1..n : f[j] = g[j]
    BY <2>1
  <2>5. (\A j \in 1..n : Descends(f, j)' = Descends(g, j)) /\ Descends(f, m)' = own(g)
    BY <1>10, <2>4
  <2>6. Tells(g)
    <3>1. \A j \in 1..n : g[j] = Descends(g, j)
      BY <1>4, <2>1, <2>3, <2>5
    <3>2. g = [j \in 1..n |-> Descends(g, j)]
      BY <2>2, <3>1
    <3> QED BY <1>1, <3>2 DEF Tells
  <2>7. \A j \in 1..n : /\ g[j] => ~del_threads[j].mayDelegate
                        /\ del_line[j].by = "delegate" => ~g[del_line[j].from]
    BY <1>1, <2>6 DEF DelegationInv, DelegatedMayNot
  <2>8. CASE i \in 1..n
    <3>1. del_line[i].by = "delegate" => del_line[i].from \in 1..n
      <4>1. del_line[i].by = "delegate" => del_line[i].from \in 1..(i - 1)
        BY <1>1, <2>8 DEF DelegationInv, LinesGoBack
      <4> QED BY <1>1, <2>8, <4>1
    <3> QED BY <1>5, <2>1, <2>7, <2>8, <3>1
  <2>9. CASE i = m
    <3>1. f[m] = own(g)
      BY <1>4, <2>3, <2>5
    <3>2. g[t] => ~del_threads[t].mayDelegate
      BY <1>4, <2>7
    <3>3. f[m] => ~thread.mayDelegate
      BY <3>1, <3>2 DEF own
    <3>4. by = "delegate" => ~f[t]
      BY <1>4, <2>1, <3>2
    <3> QED BY <1>5, <2>9, <3>3, <3>4
  <2> QED BY <1>4, <2>8, <2>9
<1>13. DelegatedMayNot'
  BY <1>4, <1>11, <1>12 DEF DelegatedMayNot
<1> QED BY <1>6, <1>7, <1>8, <1>13 DEF DelegationInv

\* A failed start: the row of a new child goes, if it is still there, with its chat.
LEMMA FailedStart ==
  ASSUME DelegationInv, NEW t \in Chats, Delegating!Starting(t), Delegating!Fails(t),
         UNCHANGED <<del_live, del_line>>
  PROVE  DelegationInv'
<1> USE DEF Delegating!Starting, Delegating!Fails, Delegating!Stage
<1>1. del_threads[t] \in ChatRows
  BY DEF DelegationInv, ChatTypes
<1>2. t \notin del_live
  BY DEF DelegationInv, TurnsHaveChats
<1>3. /\ DOMAIN del_starting' = Chats
      /\ \A u \in Chats : del_starting'[u] = IF u = t THEN None ELSE del_starting[u]
  BY DEF DelegationInv, ChatTypes
<1>4. /\ del_live' \subseteq Chats
      /\ \A u \in del_live' : del_starting'[u] = None /\ u \in del_live /\ u # t
  BY <1>2, <1>3 DEF DelegationInv, ChatTypes, TurnsHaveChats
<1>5. CASE del_threads' = del_threads
  <2>1. del_threads' = [del_threads EXCEPT ![t] = del_threads[t]]
    BY <1>5 DEF DelegationInv, ChatTypes
  <2>2. \A u \in del_live' : /\ del_starting'[u] = None
                             /\ u # t => u \in del_live
                             /\ u = t => del_threads[t].there
    BY <1>4
  <2> QED BY <1>1, <1>3, <1>4, <2>1, <2>2, OneRowChanges
<1>6. CASE del_threads' = [del_threads EXCEPT ![t].there = FALSE, ![t].parent = None]
  <2> DEFINE r == [del_threads[t] EXCEPT !.there = FALSE, !.parent = None]
  <2>1. del_threads' = [del_threads EXCEPT ![t] = r]
    BY <1>6 DEF DelegationInv, ChatTypes
  <2>2. r \in ChatRows /\ r.mayDelegate = del_threads[t].mayDelegate
    BY <1>1, RowChanges
  <2> HIDE DEF r
  <2>3. \A u \in del_live' : /\ del_starting'[u] = None
                             /\ u # t => u \in del_live
                             /\ u = t => r.there
    BY <1>4
  <2> QED BY <1>3, <1>4, <2>1, <2>2, <2>3, OneRowChanges
<1> QED BY <1>5, <1>6

LEMMA StepDelegation == DelegationInv /\ [Delegating!Next]_del_vars => DelegationInv'
<1> SUFFICES ASSUME DelegationInv, [Delegating!Next]_del_vars PROVE DelegationInv'
  OBVIOUS
<1>1. /\ Delegating!Made = Chats
      /\ \A t \in Chats : del_threads[t] \in ChatRows
      /\ del_threads \in [Chats -> ChatRows] /\ DOMAIN del_starting = Chats
      /\ del_live \subseteq Chats
      /\ \A t \in del_live : del_threads[t].there /\ del_starting[t] = None
  BY DEF Delegating!Made, Chats, DelegationInv, ChatTypes, TurnsHaveChats
<1>2. Delegating!There = {t \in Chats : del_threads[t].there}
  BY <1>1 DEF Delegating!There
<1>3. ASSUME NEW t \in Chats, NEW r \in ChatRows, r.mayDelegate = del_threads[t].mayDelegate,
             r.there = del_threads[t].there, del_threads' = [del_threads EXCEPT ![t] = r],
             DOMAIN del_starting' = Chats, del_live' \subseteq del_live, del_line' = del_line,
             \A u \in del_live' : del_starting'[u] = None
      PROVE  DelegationInv'
  BY <1>1, <1>3, OneRowChanges
<1>4. ASSUME NEW t \in Chats, NEW s \in {"idle", "running", "interrupted"}, Delegating!Status(t, s)
      PROVE  /\ del_threads' = [del_threads EXCEPT ![t] = [del_threads[t] EXCEPT !.status = s]]
             /\ [del_threads[t] EXCEPT !.status = s] \in ChatRows
             /\ [del_threads[t] EXCEPT !.status = s].mayDelegate = del_threads[t].mayDelegate
             /\ [del_threads[t] EXCEPT !.status = s].there = del_threads[t].there
  <2>1. del_threads[t] \in ChatRows
    BY <1>1
  <2>2. del_threads' = [del_threads EXCEPT ![t] = [del_threads[t] EXCEPT !.status = s]]
    BY <1>1, <1>4 DEF Delegating!Status
  <2> QED BY <2>1, <2>2, RowChanges
<1>5. ASSUME NEW t \in Chats, NEW at, Delegating!Stage(t, at)
      PROVE  /\ DOMAIN del_starting' = Chats
             /\ \A u \in Chats : del_starting'[u] = IF u = t THEN at ELSE del_starting[u]
  BY <1>1, <1>5 DEF Delegating!Stage
<1>6. ASSUME NEW t \in Chats, t \notin del_live, NEW at, Delegating!Stage(t, at),
             del_threads' = del_threads, UNCHANGED <<del_live, del_line>>
      PROVE  DelegationInv'
  <2>1. del_threads' = [del_threads EXCEPT ![t] = del_threads[t]]
    BY <1>1, <1>6
  <2>2. /\ DOMAIN del_starting' = Chats
        /\ \A u \in del_live' : del_starting'[u] = None
    BY <1>1, <1>5, <1>6
  <2> QED BY <1>1, <1>3, <1>6, <2>1, <2>2
<1>7. ASSUME NEW t \in Chats, Delegating!Starting(t) PROVE t \notin del_live
  BY <1>1, <1>7 DEF Delegating!Starting
<1>8. ASSUME NEW t \in Chats, Delegating!Configured(t) PROVE DelegationInv'
  <2>1. Delegating!Starting(t) /\ t \notin del_live /\ UNCHANGED <<del_live, del_line>>
    BY <1>7, <1>8 DEF Delegating!Configured
  <2>2. CASE Delegating!Stage(t, [del_starting[t] EXCEPT !.at = "baseline"])
             /\ UNCHANGED del_threads
    BY <1>6, <2>1, <2>2
  <2>3. CASE Delegating!Fails(t)
    BY <2>1, <2>3, FailedStart
  <2> QED BY <1>8, <2>2, <2>3 DEF Delegating!Configured
<1>9. ASSUME NEW t \in Chats, Delegating!Taken(t) PROVE DelegationInv'
  <2>1. Delegating!Starting(t) /\ UNCHANGED del_line
    BY <1>9 DEF Delegating!Taken
  <2>2. CASE /\ Delegating!StillThere(t) /\ Delegating!Stage(t, None)
             /\ Delegating!Status(t, "running") /\ del_live' = del_live \cup {t}
    <3> DEFINE r == [del_threads[t] EXCEPT !.status = "running"]
    <3>1. /\ del_threads' = [del_threads EXCEPT ![t] = r] /\ r \in ChatRows
          /\ r.mayDelegate = del_threads[t].mayDelegate /\ r.there = del_threads[t].there
      BY <1>4, <2>2
    <3> HIDE DEF r
    <3>2. r.there
      BY <1>2, <2>2, <3>1 DEF Delegating!StillThere
    <3>3. /\ DOMAIN del_starting' = Chats
          /\ \A u \in Chats : del_starting'[u] = IF u = t THEN None ELSE del_starting[u]
      BY <1>5, <2>2
    <3>4. del_live' \subseteq Chats /\ \A u \in del_live' : del_starting'[u] = None
      BY <1>1, <2>2, <3>3
    <3>5. \A u \in del_live' : u # t => u \in del_live
      BY <2>2
    <3> QED BY <2>1, <3>1, <3>2, <3>3, <3>4, <3>5, OneRowChanges
  <2>3. CASE Delegating!Fails(t) /\ UNCHANGED del_live
    BY <2>1, <2>3, FailedStart
  <2> QED BY <1>9, <2>2, <2>3 DEF Delegating!Taken
<1>10. ASSUME NEW t \in Chats, Delegating!TurnEnds(t) PROVE DelegationInv'
  <2>1. /\ del_live' = del_live \ {t} /\ UNCHANGED del_line
        /\ del_starting' = [c \in Chats |->
             IF Delegating!Starting(c) /\ del_starting[c].asker = t
             THEN [del_starting[c] EXCEPT !.asker = None] ELSE del_starting[c]]
    BY <1>1, <1>10 DEF Delegating!TurnEnds
  <2>2. DOMAIN del_starting' = Chats /\ \A u \in del_live' : del_starting'[u] = None
    BY <1>1, <2>1 DEF Delegating!Starting
  <2>3. CASE del_threads' = [del_threads EXCEPT ![t].status = "idle", ![t].done = TRUE]
    <3> DEFINE r == [del_threads[t] EXCEPT !.status = "idle", !.done = TRUE]
    <3>1. del_threads' = [del_threads EXCEPT ![t] = r]
      BY <1>1, <2>3
    <3>2. r \in ChatRows /\ r.mayDelegate = del_threads[t].mayDelegate
          /\ r.there = del_threads[t].there
      BY <1>1, RowChanges
    <3> HIDE DEF r
    <3> QED BY <1>3, <2>1, <2>2, <3>1, <3>2
  <2>4. CASE Delegating!Status(t, "interrupted")
    <3> DEFINE r == [del_threads[t] EXCEPT !.status = "interrupted"]
    <3>1. /\ del_threads' = [del_threads EXCEPT ![t] = r] /\ r \in ChatRows
          /\ r.mayDelegate = del_threads[t].mayDelegate /\ r.there = del_threads[t].there
      BY <1>4, <2>4
    <3> HIDE DEF r
    <3> QED BY <1>3, <2>1, <2>2, <3>1
  <2> QED BY <1>10, <2>3, <2>4 DEF Delegating!TurnEnds
<1>11. ASSUME NEW t \in Chats, Delegating!StartDelegated(t) PROVE DelegationInv'
  <2> DEFINE thread == Delegating!Thread(t, FALSE, Delegating!InheritedMayDelegate(t))
  <2>1. /\ Delegating!New(thread, "delegate", t, Delegating!Begin("delegate", t))
        /\ del_threads[t].mayDelegate /\ UNCHANGED del_live
    BY <1>11 DEF Delegating!StartDelegated, Delegating!Context
  <2>2. thread \in ChatRows /\ ~thread.mayDelegate
    <3>1. t \in Nat
      BY DEF DelegationInv, ChatTypes
    <3> QED BY <3>1 DEF Delegating!Thread, Delegating!InheritedMayDelegate, ChatRows
  <2> HIDE DEF thread
  <2> QED BY <2>1, <2>2, NewChatDelegation
<1>12. ASSUME NEW t \in Chats, NEW c \in Chats, Delegating!Message(t, c) PROVE DelegationInv'
  <2> DEFINE r == [del_threads[c] EXCEPT !.status = "idle"]
  <2>1. /\ del_threads' = [del_threads EXCEPT ![c] = r] /\ r \in ChatRows
        /\ r.mayDelegate = del_threads[c].mayDelegate /\ r.there = del_threads[c].there
    BY <1>4, <1>12 DEF Delegating!Message
  <2> HIDE DEF r
  <2>2. c \notin del_live /\ UNCHANGED <<del_live, del_line>>
    BY <1>12 DEF Delegating!Message
  <2>3. del_starting' = del_starting \/ Delegating!Stage(c, Delegating!Begin("message", t))
    BY <1>12 DEF Delegating!Message
  <2>4. DOMAIN del_starting' = Chats /\ \A u \in del_live' : del_starting'[u] = None
    BY <1>1, <1>5, <2>2, <2>3
  <2> QED BY <1>3, <2>1, <2>2, <2>4
<1>13. ASSUME NEW t \in Chats, NEW c \in Chats, Delegating!Cancel(t, c) PROVE DelegationInv'
  <2> DEFINE r == [del_threads[c] EXCEPT !.status = "idle"]
  <2>1. /\ del_threads' = [del_threads EXCEPT ![c] = r] /\ r \in ChatRows
        /\ r.mayDelegate = del_threads[c].mayDelegate /\ r.there = del_threads[c].there
    BY <1>4, <1>13 DEF Delegating!Cancel
  <2> HIDE DEF r
  <2>2. del_live' = del_live \ {c} /\ UNCHANGED <<del_starting, del_line>>
    BY <1>13 DEF Delegating!Cancel
  <2> QED BY <1>1, <1>3, <2>1, <2>2
<1>14. ASSUME NEW t \in Chats, Delegating!UserStarts(t) PROVE DelegationInv'
  BY <1>6, <1>14 DEF Delegating!UserStarts, Delegating!MayStart
<1>15. ASSUME NEW t \in Chats, Delegating!Continue(t) PROVE DelegationInv'
  <2> DEFINE r == [del_threads[t] EXCEPT !.status = "idle"]
  <2>1. /\ del_threads' = [del_threads EXCEPT ![t] = r] /\ r \in ChatRows
        /\ r.mayDelegate = del_threads[t].mayDelegate /\ r.there = del_threads[t].there
    BY <1>4, <1>15 DEF Delegating!Continue
  <2> HIDE DEF r
  <2>2. UNCHANGED <<del_live, del_starting, del_line>>
    BY <1>15 DEF Delegating!Continue
  <2> QED BY <1>1, <1>3, <2>1, <2>2
<1>16. ASSUME NEW t \in Chats, Delegating!Archive(t) PROVE DelegationInv'
  <2> DEFINE r == [del_threads[t] EXCEPT !.archived = TRUE]
  <2>1. del_threads' = [del_threads EXCEPT ![t] = r]
    BY <1>1, <1>16 DEF Delegating!Archive
  <2>2. r \in ChatRows /\ r.mayDelegate = del_threads[t].mayDelegate
        /\ r.there = del_threads[t].there
    BY <1>1, RowChanges
  <2> HIDE DEF r
  <2>3. UNCHANGED <<del_live, del_starting, del_line>>
    BY <1>16 DEF Delegating!Archive
  <2> QED BY <1>1, <1>3, <2>1, <2>2, <2>3
<1>17. ASSUME del_threads' \in [Chats -> ChatRows], DOMAIN del_starting' = Chats,
              del_live' \subseteq del_live, del_line' = del_line,
              \A t \in Chats : del_threads'[t].mayDelegate = del_threads[t].mayDelegate,
              \A u \in del_live' : del_starting'[u] = None /\ del_threads'[u].there
       PROVE  DelegationInv'
  <2>1. Chats' = Chats
    BY <1>17 DEF Chats
  <2>2. LinesGoBack' /\ DelegatedMayNot'
    BY <1>17, <2>1, NoNewChat DEF DelegationInv
  <2>3. ChatTypes'
    BY <1>17, <2>1 DEF DelegationInv, ChatTypes
  <2> QED BY <1>17, <2>2, <2>3 DEF DelegationInv, TurnsHaveChats
<1>18. ASSUME NEW t \in Chats, Delegating!Delete(t) PROVE DelegationInv'
  <2>1. /\ del_threads' = [i \in Chats |->
             IF i = t THEN [del_threads[i] EXCEPT !.there = FALSE, !.parent = None]
             ELSE IF del_threads[i].parent = t
                  THEN [del_threads[i] EXCEPT !.parent = None, !.fork = FALSE]
                  ELSE del_threads[i]]
        /\ t \notin del_live /\ UNCHANGED <<del_starting, del_live, del_line>>
    BY <1>1, <1>18 DEF Delegating!Delete
  <2>2. \A i \in Chats : /\ del_threads'[i] \in ChatRows
                         /\ del_threads'[i].mayDelegate = del_threads[i].mayDelegate
                         /\ i # t => del_threads'[i].there = del_threads[i].there
    BY <1>1, <2>1, RowChanges
  <2>3. del_threads' \in [Chats -> ChatRows]
    BY <2>1, <2>2
  <2>4. \A u \in del_live' : del_starting'[u] = None /\ del_threads'[u].there
    BY <1>1, <2>1, <2>2
  <2> QED BY <1>1, <1>17, <2>1, <2>2, <2>3, <2>4
<1>19. ASSUME NEW t \in Chats, Delegating!Fork(t) PROVE DelegationInv'
  <2> DEFINE thread == Delegating!Thread(t, TRUE, del_threads[t].mayDelegate)
  <2>1. Delegating!New(thread, "fork", t, None) /\ UNCHANGED del_live
    BY <1>19 DEF Delegating!Fork
  <2>2. thread \in ChatRows /\ thread.mayDelegate = del_threads[t].mayDelegate
    <3>1. t \in Nat
      BY DEF DelegationInv, ChatTypes
    <3>2. del_threads[t].mayDelegate \in BOOLEAN
      BY <1>1 DEF ChatRows
    <3> QED BY <3>1, <3>2 DEF Delegating!Thread, ChatRows
  <2> HIDE DEF thread
  <2> QED BY <2>1, <2>2, NewChatDelegation
<1>20. CASE Delegating!Restart
  <2>1. /\ del_threads' = [t \in Chats |->
             IF t \in del_live THEN [del_threads[t] EXCEPT !.status = "interrupted"]
             ELSE del_threads[t]]
        /\ del_starting' = [t \in Chats |-> None] /\ del_live' = {} /\ UNCHANGED del_line
    BY <1>1, <1>20 DEF Delegating!Restart
  <2>2. \A i \in Chats : /\ del_threads'[i] \in ChatRows
                         /\ del_threads'[i].mayDelegate = del_threads[i].mayDelegate
    BY <1>1, <2>1, RowChanges
  <2>3. del_threads' \in [Chats -> ChatRows] /\ DOMAIN del_starting' = Chats
    BY <2>1, <2>2
  <2> QED BY <1>17, <2>1, <2>2, <2>3
<1>21. CASE UNCHANGED del_vars
  <2>1. UNCHANGED <<del_threads, del_starting, del_live, del_line>>
    BY <1>21 DEF del_vars
  <2> QED BY <1>1, <1>17, <2>1
<1> QED BY <1>1, <1>8, <1>9, <1>10, <1>11, <1>12, <1>13, <1>14, <1>15, <1>16, <1>18, <1>19,
           <1>20, <1>21
        DEF Delegating!Next

LEMMA DelegationInvariance == MCSpec => []DelegationInv
<1>1. MCInit => DelegationInv
  BY InitDelegation DEF MCInit
<1>2. DelegationInv /\ [MCNext]_MCVars => DelegationInv'
  <2> SUFFICES ASSUME [MCNext]_MCVars PROVE [Delegating!Next]_del_vars
    BY StepDelegation
  <2> QED BY DEF MCNext, MCVars
<1> QED
  BY <1>1, <1>2, PTL DEF MCSpec

\* Delegation is one level deep, however many chats there are and whatever is deleted or
\* forked in between: who was delegated, or comes from one who was, has no right to delegate.
THEOREM DelegationIsOneLevel == MCSpec => []ChildrenNeverDelegate
<1>1. DelegationInv => ChildrenNeverDelegate
  <2> SUFFICES ASSUME DelegationInv PROVE Delegating!ChildrenNeverDelegate
    BY DEF ChildrenNeverDelegate
  <2> DEFINE f == CHOOSE g : g = [t \in Delegating!Made |->
                    \/ del_line[t].by = "delegate"
                    \/ (del_line[t].by = "fork" /\ g[del_line[t].from])]
  <2>1. PICK g : Tells(g)
    BY DEF DelegationInv, DelegatedMayNot
  <2>2. g = [t \in Delegating!Made |-> \/ del_line[t].by = "delegate"
                                       \/ (del_line[t].by = "fork" /\ g[del_line[t].from])]
    BY <2>1 DEF Tells, Descends, Delegating!Made, Chats
  <2>3. f = [t \in Delegating!Made |-> \/ del_line[t].by = "delegate"
                                       \/ (del_line[t].by = "fork" /\ f[del_line[t].from])]
    BY <2>2
  <2>4. Tells(f)
    BY <2>3 DEF Tells, Descends, Delegating!Made, Chats
  <2>5. \A c \in Delegating!Made : del_line[c].by = "delegate" => ~f[del_line[c].from]
    BY <2>4 DEF DelegationInv, DelegatedMayNot, Delegating!Made, Chats
  <2> QED BY <2>5 DEF Delegating!ChildrenNeverDelegate
<1> QED
  BY <1>1, DelegationInvariance, PTL

\* No chat is deleted from under its turn: a turn that is taken over at last finds its row, or
\* is given up.
THEOREM TurnsKeepTheirChats == MCSpec => []LiveTurnHasItsChat
<1>1. DelegationInv => LiveTurnHasItsChat
  BY DEF DelegationInv, ChatTypes, TurnsHaveChats, LiveTurnHasItsChat,
         Delegating!LiveTurnHasItsChat, Delegating!There, Delegating!Made, Chats
<1> QED
  BY <1>1, DelegationInvariance, PTL

-----------------------------------------------------------------------------
(* Dependencies: proposals are applied whole, and edits survive.  Of the     *)
(* files, 1 is package.json and 2 the lockfile.                              *)
Contents == Nat \cup {None}
Contained == [{1, 2} -> Contents]
Applying == {"check", "replace", "rollBack", "putBack"}
ProposalRows ==
  [before : Contained, after : Contained, targets : Contained, turn : Nat,
   status : {"live", "applied", "gone"}]
JobRows ==
  [kind : {"preview", "apply"}, id : Nat, turn : Nat, hash : Contained,
   at : {"asked", "read", "run"} \cup Applying, file : {1, 2}, bytes : Contained,
   applied : {{}, {1}}]

DependencyTypes ==
  /\ deps_disk \in Contained /\ deps_text \in Contained
  /\ deps_turn \in Nat /\ deps_fresh \in Nat /\ deps_fresh >= 1
  /\ deps_proposals \in Seq(ProposalRows)
  /\ deps_queue \in Seq(JobRows)
  /\ deps_tool \in JobRows \cup {None}
  /\ deps_previews \subseteq DOMAIN deps_proposals
  /\ deps_sent \subseteq DOMAIN deps_proposals

\* What nobody has written yet is larger.
Written(content) == content \in Nat => content <= deps_fresh

\* What a proposal makes of package.json is new: it is in no other proposal, and the user does
\* not write it.
MakesOf(id) == deps_proposals[id].after[1]
MakesNew(id) ==
  /\ MakesOf(id) \in 2..deps_fresh
  /\ deps_proposals[id].after[2] \in {MakesOf(id), deps_proposals[id].before[2], None}
  /\ \A f \in {1, 2} : /\ deps_proposals[id].before[f] \in Nat
                            => deps_proposals[id].before[f] < MakesOf(id)
                       /\ deps_text[f] # MakesOf(id)
  /\ \A other \in DOMAIN deps_proposals : MakesOf(other) = MakesOf(id) => other = id
ContentsAreNew ==
  /\ \A f \in {1, 2} : Written(deps_disk[f]) /\ Written(deps_text[f])
  /\ \A id \in DOMAIN deps_proposals : MakesNew(id)

\* Only the first operation has begun.
JobOK(i) ==
  LET job == deps_queue[i] IN
  /\ job.kind = "apply" => job.id \in deps_sent
  /\ i # 1 => job.at = "asked"
  /\ job.at = "asked" \/ job.kind = "preview" => job.applied = {}
  /\ job.at \in Applying <=> job.kind = "apply" /\ job.at # "asked"
  /\ job.at = "putBack" => job.file = 1
  /\ \A f \in {1, 2} : Written(job.bytes[f])
JobsOK ==
  /\ \A i \in DOMAIN deps_queue : JobOK(i)
  /\ deps_tool # None =>
       /\ deps_tool.at = "asked" /\ deps_tool.applied = {}
       /\ deps_tool.kind = "apply" => deps_tool.id \in DOMAIN deps_proposals
       /\ deps_tool.bytes = [f \in {1, 2} |-> None]

\* What a proposal makes is only found, in a file or where a file was read, when it has been
\* applied or was cut in two; or while it is applied, in package.json alone.
Settled(id) == deps_proposals[id].status = "applied" \/ id \in deps_torn
HalfApplied(id) ==
  deps_queue # <<>> /\ deps_queue[1].kind = "apply" /\ deps_queue[1].id = id
    /\ deps_queue[1].applied = {1}
FoundWhenSettled ==
  \A id \in DOMAIN deps_proposals :
    /\ deps_disk[1] = MakesOf(id) => Settled(id) \/ HalfApplied(id)
    /\ deps_disk[2] = MakesOf(id) => Settled(id)
    /\ \A f \in {1, 2} :
         /\ \A j \in DOMAIN deps_proposals :
              deps_proposals[j].before[f] = MakesOf(id) => Settled(id)
         /\ \A i \in DOMAIN deps_queue : deps_queue[i].bytes[f] = MakesOf(id) => Settled(id)

\* What is about to be overwritten is what was looked for, but for an edit in that instant.
OverwritesExpected ==
  deps_queue # <<>> =>
    LET job == deps_queue[1] IN
    /\ job.at = "replace" /\ job.file \notin deps_hit =>
         deps_disk[job.file] = deps_proposals[job.id].before[job.file]
    /\ job.at = "putBack" /\ 1 \notin deps_hit =>
         deps_disk[1] = deps_proposals[job.id].after[1]

Survives(f) ==
  f \notin deps_hit =>
    \/ deps_disk[f] = deps_text[f]
    \/ \E id \in deps_sent : deps_proposals[id].before[f] = deps_text[f]
EditsHeld == \A f \in {1, 2} : Survives(f)

DependencyInv ==
  /\ DependencyTypes
  /\ ContentsAreNew
  /\ JobsOK
  /\ FoundWhenSettled
  /\ OverwritesExpected
  /\ EditsHeld

-----------------------------------------------------------------------------
\* What the action of a step may find in the head of the queue, and what it does to it.
LEMMA HeadIsJob ==
  ASSUME DependencyTypes, JobsOK, deps_queue # <<>>
  PROVE  /\ Dependencies!Job = deps_queue[1] /\ 1 \in DOMAIN deps_queue
         /\ deps_queue[1] \in JobRows /\ JobOK(1)
<1>1. deps_queue \in Seq(JobRows)
  BY DEF DependencyTypes
<1>2. Dependencies!Job = deps_queue[1]
  BY DEF Dependencies!Job
<1>3. 1 \in DOMAIN deps_queue
  BY <1>1
<1> QED BY <1>1, <1>2, <1>3 DEF JobsOK

\* The first operation is over.
LEMMA FirstIsDone ==
  ASSUME DependencyTypes, JobsOK, deps_queue # <<>>, Dependencies!Done
  PROVE  /\ deps_queue' \in Seq(JobRows)
         /\ \A i \in DOMAIN deps_queue' : /\ i \in Nat /\ i + 1 \in DOMAIN deps_queue
                                          /\ deps_queue'[i] = deps_queue[i + 1]
                                          /\ deps_queue'[i].at = "asked"
                                          /\ deps_queue'[i].applied = {}
<1>1. deps_queue \in Seq(JobRows) /\ deps_queue' = Tail(deps_queue)
  BY DEF DependencyTypes, Dependencies!Done
<1>2. deps_queue' \in Seq(JobRows)
  BY <1>1
<1>3. ASSUME NEW i \in DOMAIN deps_queue'
      PROVE  i \in Nat /\ i + 1 \in DOMAIN deps_queue /\ i + 1 # 1 /\ deps_queue'[i] = deps_queue[i + 1]
  BY <1>1
<1>4. ASSUME NEW i \in DOMAIN deps_queue'
      PROVE  deps_queue'[i].at = "asked" /\ deps_queue'[i].applied = {}
  BY <1>3 DEF JobsOK, JobOK
<1> QED BY <1>2, <1>3, <1>4

\* The first operation goes on.
LEMMA FirstGoesOn ==
  ASSUME DependencyTypes, JobsOK, deps_queue # <<>>,
         NEW job \in JobRows, deps_queue' = [deps_queue EXCEPT ![1] = job]
  PROVE  /\ deps_queue' \in Seq(JobRows) /\ deps_queue' # <<>>
         /\ DOMAIN deps_queue' = DOMAIN deps_queue
         /\ deps_queue'[1] = job
         /\ \A i \in DOMAIN deps_queue : /\ i # 1 => deps_queue'[i] = deps_queue[i]
                                         /\ i # 1 => deps_queue'[i].at = "asked"
                                         /\ i # 1 => deps_queue'[i].applied = {}
<1>1. deps_queue \in Seq(JobRows)
  BY DEF DependencyTypes
<1>2. 1 \in DOMAIN deps_queue
  BY <1>1
<1>3. ASSUME NEW i \in DOMAIN deps_queue, i # 1
      PROVE  deps_queue[i].at = "asked" /\ deps_queue[i].applied = {}
  BY <1>3 DEF JobsOK, JobOK
<1> QED BY <1>1, <1>2, <1>3

LEMMA InitFiles == Dependencies!Init => DependencyInv
<1> SUFFICES ASSUME Dependencies!Init PROVE DependencyInv
  OBVIOUS
<1>1. /\ deps_disk \in Contained /\ deps_text = deps_disk /\ deps_turn = 1 /\ deps_fresh = 1
      /\ deps_proposals = <<>> /\ deps_queue = <<>> /\ deps_tool = None
      /\ deps_previews = {} /\ deps_sent = {}
  BY DEF Dependencies!Init, Dependencies!Files, Dependencies!Package, Dependencies!Lock,
         Contained, Contents
<1>2. \A f \in {1, 2} : deps_disk[f] \in {1, None}
  BY DEF Dependencies!Init, Dependencies!Files, Dependencies!Package, Dependencies!Lock
<1>3. DependencyTypes
  BY <1>1 DEF DependencyTypes
<1>4. ContentsAreNew
  BY <1>1, <1>2, ContentAssumption DEF ContentsAreNew, Written
<1>5. JobsOK /\ FoundWhenSettled /\ OverwritesExpected /\ EditsHeld
  BY <1>1 DEF JobsOK, FoundWhenSettled, OverwritesExpected, EditsHeld, Survives
<1> QED BY <1>3, <1>4, <1>5 DEF DependencyInv

\* The rows of the proposals keep what they say of the files.
SameProposals ==
  /\ deps_proposals' \in Seq(ProposalRows)
  /\ DOMAIN deps_proposals' = DOMAIN deps_proposals
  /\ \A id \in DOMAIN deps_proposals :
       /\ deps_proposals'[id].before = deps_proposals[id].before
       /\ deps_proposals'[id].after = deps_proposals[id].after
       /\ deps_proposals[id].status = "applied" => deps_proposals'[id].status = "applied"

LEMMA PruningKeepsProposals ==
  ASSUME DependencyTypes, NEW gone, gone \subseteq Dependencies!Live,
         deps_proposals' = Dependencies!Pruned(gone)
  PROVE  SameProposals
<1>1. deps_proposals \in Seq(ProposalRows)
  BY DEF DependencyTypes
<1>2. deps_proposals' = [id \in 1..Len(deps_proposals) |->
         IF id \in gone THEN [deps_proposals[id] EXCEPT !.status = "gone"] ELSE deps_proposals[id]]
  BY <1>1 DEF Dependencies!Pruned
<1>3. \A id \in gone : deps_proposals[id].status = "live"
  BY DEF Dependencies!Live
<1>4. ASSUME NEW id \in 1..Len(deps_proposals)
      PROVE  /\ deps_proposals'[id] \in ProposalRows
             /\ deps_proposals'[id].before = deps_proposals[id].before
             /\ deps_proposals'[id].after = deps_proposals[id].after
             /\ deps_proposals[id].status = "applied" => deps_proposals'[id].status = "applied"
  <2>1. deps_proposals[id] \in ProposalRows
    BY <1>1
  <2>2. CASE id \in gone
    <3>1. deps_proposals'[id] = [deps_proposals[id] EXCEPT !.status = "gone"]
      BY <1>2, <2>2
    <3> QED BY <1>3, <2>1, <2>2, <3>1 DEF ProposalRows
  <2>3. CASE id \notin gone
    BY <1>2, <2>1, <2>3
  <2> QED BY <2>2, <2>3
<1>5. deps_proposals' \in [1..Len(deps_proposals) -> ProposalRows] /\ Len(deps_proposals) \in Nat
  BY <1>1, <1>2, <1>4
<1>6. deps_proposals' \in Seq(ProposalRows) /\ DOMAIN deps_proposals' = DOMAIN deps_proposals
  BY <1>1, <1>5
<1> QED BY <1>1, <1>4, <1>6 DEF SameProposals

\* Contents stay new while nothing is proposed and what comes into a file is bounded.
LEMMA ContentsStayNew ==
  ASSUME DependencyTypes, ContentsAreNew, SameProposals, UNCHANGED <<deps_text, deps_fresh>>,
         \A f \in {1, 2} : Written(deps_disk[f])'
  PROVE  ContentsAreNew'
BY DEF ContentsAreNew, MakesNew, MakesOf, SameProposals, Written

LEMMA SettledStays ==
  ASSUME SameProposals, deps_torn \subseteq deps_torn', NEW id \in DOMAIN deps_proposals,
         Settled(id)
  PROVE  Settled(id)'
BY DEF SameProposals, Settled

\* The user writes neither what a proposal makes nor, but in that instant, what is overwritten.
LEMMA EditKeepsFiles ==
  ASSUME DependencyInv, NEW file \in Dependencies!Files, Dependencies!Edit(file)
  PROVE  DependencyInv'
<1> USE DEF DependencyInv
<1>1. file \in {1, 2}
  BY DEF Dependencies!Files, Dependencies!Package, Dependencies!Lock
<1>2. UNCHANGED <<deps_turn, deps_previews, deps_tool, deps_queue, deps_proposals, deps_sent, deps_torn>>
  BY DEF Dependencies!Edit
<1>3. PICK content \in {1, deps_fresh + 1, None} :
        /\ deps_fresh' = IF content = deps_fresh + 1 THEN deps_fresh + 1 ELSE deps_fresh
        /\ deps_disk' = [deps_disk EXCEPT ![file] = content]
        /\ deps_text' = [deps_text EXCEPT ![file] = content]
  BY DEF Dependencies!Edit
<1>4. deps_hit' = IF (Dependencies!Doing("replace") \/ Dependencies!Doing("putBack"))
                       /\ Dependencies!Job.file = file
                  THEN deps_hit \cup {file} ELSE deps_hit \ {file}
  BY DEF Dependencies!Edit
<1>5. /\ deps_disk \in Contained /\ deps_text \in Contained
      /\ deps_fresh \in Nat /\ deps_fresh >= 1
  BY DEF DependencyTypes
<1>6. content \in Contents /\ deps_fresh' \in Nat /\ deps_fresh' >= deps_fresh
      /\ (content \in Nat => content <= deps_fresh')
  BY <1>3, <1>5, ContentAssumption DEF Contents
<1>7. /\ deps_disk' \in Contained /\ deps_text' \in Contained
      /\ deps_disk'[file] = content /\ deps_text'[file] = content
      /\ \A f \in {1, 2} : f # file => deps_disk'[f] = deps_disk[f] /\ deps_text'[f] = deps_text[f]
  BY <1>1, <1>3, <1>5, <1>6 DEF Contained
<1>8. \A id \in DOMAIN deps_proposals : content # MakesOf(id)
  <2> SUFFICES ASSUME NEW id \in DOMAIN deps_proposals, content = MakesOf(id) PROVE FALSE
    OBVIOUS
  <2>1. MakesOf(id) \in 2..deps_fresh
    BY DEF ContentsAreNew, MakesNew
  <2> QED BY <1>3, <1>5, <2>1, ContentAssumption
<1>9. DependencyTypes'
  BY <1>2, <1>5, <1>6, <1>7 DEF DependencyTypes
<1>10. ContentsAreNew'
  BY <1>1, <1>2, <1>5, <1>6, <1>7, <1>8 DEF ContentsAreNew, MakesNew, MakesOf, Written
<1>11. JobsOK'
  BY <1>2, <1>5, <1>6 DEF JobsOK, JobOK, Written
<1>12. FoundWhenSettled'
  BY <1>1, <1>2, <1>7, <1>8 DEF FoundWhenSettled, Settled, HalfApplied, MakesOf
<1>13. OverwritesExpected'
  <2> SUFFICES ASSUME deps_queue # <<>>
               PROVE  OverwritesExpected'
    BY <1>2 DEF OverwritesExpected
  <2>1. Dependencies!Job = deps_queue[1] /\ deps_queue[1].file \in {1, 2}
        /\ (deps_queue[1].at = "putBack" => deps_queue[1].file = 1)
    BY HeadIsJob DEF JobOK, JobRows
  <2>2. CASE deps_queue[1].at \in {"replace", "putBack"} /\ deps_queue[1].file = file
    <3>1. file \in deps_hit'
      BY <1>4, <2>1, <2>2 DEF Dependencies!Doing
    <3> QED BY <1>2, <2>1, <2>2, <3>1 DEF OverwritesExpected
  <2>3. CASE ~(deps_queue[1].at \in {"replace", "putBack"} /\ deps_queue[1].file = file)
    <3>1. deps_hit' = deps_hit \ {file}
      BY <1>4, <2>1, <2>3 DEF Dependencies!Doing
    <3> QED BY <1>2, <1>7, <2>1, <2>3, <3>1 DEF OverwritesExpected
  <2> QED BY <2>2, <2>3
<1>14. EditsHeld'
  BY <1>2, <1>4, <1>7 DEF EditsHeld, Survives
<1> QED BY <1>9, <1>10, <1>11, <1>12, <1>13, <1>14

\* The tools ask, and turns end: the files and the broker are left alone.
LEMMA ToolsKeepFiles ==
  ASSUME DependencyInv,
         \/ Dependencies!AskPreview
         \/ \E id \in deps_previews : Dependencies!AskApply(id)
         \/ Dependencies!TurnEnds
  PROVE  DependencyInv'
<1> USE DEF DependencyInv
<1>1. UNCHANGED <<deps_disk, deps_queue, deps_proposals, deps_fresh, deps_text, deps_hit,
                  deps_sent, deps_torn>>
  BY DEF Dependencies!AskPreview, Dependencies!AskApply, Dependencies!TurnEnds,
         Dependencies!history
<1>2. deps_turn' \in Nat /\ deps_previews' \subseteq deps_previews
  BY DEF DependencyTypes, Dependencies!AskPreview, Dependencies!AskApply, Dependencies!TurnEnds
<1>3. /\ deps_tool' \in JobRows \cup {None}
      /\ deps_tool' # None =>
           /\ deps_tool'.at = "asked" /\ deps_tool'.applied = {}
           /\ deps_tool'.kind = "apply" => deps_tool'.id \in DOMAIN deps_proposals
           /\ deps_tool'.bytes = [f \in {1, 2} |-> None]
  <2>1. ASSUME NEW kind \in {"preview", "apply"}, NEW id \in Nat, NEW hash \in Contained
        PROVE  LET operation == Dependencies!Request(kind, id, hash)
               IN  /\ operation \in JobRows /\ operation.at = "asked" /\ operation.applied = {}
                   /\ operation.kind = kind /\ operation.id = id
                   /\ operation.bytes = [f \in {1, 2} |-> None]
    <3>1. [f \in {1, 2} |-> None] \in Contained /\ deps_turn \in Nat
      BY DEF Contained, Contents, DependencyTypes
    <3> QED BY <3>1 DEF Dependencies!Request, Dependencies!Package, Dependencies!Files,
                        Dependencies!Lock, JobRows
  <2>2. CASE Dependencies!AskPreview
    BY <2>1, <2>2 DEF Dependencies!AskPreview, DependencyTypes
  <2>3. ASSUME NEW id \in deps_previews, Dependencies!AskApply(id)
        PROVE  /\ deps_tool' \in JobRows /\ deps_tool'.at = "asked" /\ deps_tool'.applied = {}
               /\ deps_tool'.id \in DOMAIN deps_proposals
               /\ deps_tool'.bytes = [f \in {1, 2} |-> None]
    <3>1. deps_proposals \in Seq(ProposalRows) /\ id \in DOMAIN deps_proposals
      BY DEF DependencyTypes
    <3>2. id \in Nat /\ deps_proposals[id] \in ProposalRows
      BY <3>1
    <3>3. deps_proposals[id].targets \in Contained
      BY <3>2 DEF ProposalRows
    <3>4. deps_tool' = Dependencies!Request("apply", id, deps_proposals[id].targets)
      BY <2>3 DEF Dependencies!AskApply
    <3> QED BY <2>1, <3>1, <3>2, <3>3, <3>4
  <2>4. CASE Dependencies!TurnEnds
    BY <2>4 DEF Dependencies!TurnEnds
  <2> QED BY <2>2, <2>3, <2>4
<1>4. DependencyTypes'
  BY <1>1, <1>2, <1>3 DEF DependencyTypes
<1>5. ContentsAreNew'
  BY <1>1 DEF ContentsAreNew, MakesNew, MakesOf, Written
<1>6. JobsOK'
  BY <1>1, <1>3 DEF JobsOK, JobOK, Written
<1>7. FoundWhenSettled'
  BY <1>1 DEF FoundWhenSettled, Settled, HalfApplied, MakesOf
<1>8. OverwritesExpected' /\ EditsHeld'
  BY <1>1 DEF OverwritesExpected, EditsHeld, Survives
<1> QED BY <1>4, <1>5, <1>6, <1>7, <1>8

\* An approved operation goes to the end of the queue.
LEMMA DecisionKeepsFiles ==
  ASSUME DependencyInv, NEW allow \in BOOLEAN, Dependencies!Decide(allow)
  PROVE  DependencyInv'
<1> USE DEF DependencyInv
<1>1. /\ UNCHANGED <<deps_disk, deps_turn, deps_previews, deps_proposals, deps_fresh, deps_text,
                     deps_hit, deps_torn>>
      /\ deps_tool # None /\ deps_tool' = None
  BY DEF Dependencies!Decide
<1>2. /\ deps_tool \in JobRows /\ deps_tool.at = "asked" /\ deps_tool.applied = {}
      /\ deps_tool.kind = "apply" => deps_tool.id \in DOMAIN deps_proposals
      /\ deps_tool.bytes = [f \in {1, 2} |-> None]
      /\ deps_queue \in Seq(JobRows) /\ deps_sent \subseteq DOMAIN deps_proposals
  BY <1>1 DEF DependencyTypes, JobsOK
<1>3. ContentsAreNew'
  BY <1>1 DEF ContentsAreNew, MakesNew, MakesOf, Written
<1>4. CASE UNCHANGED <<deps_queue, deps_sent>>
  <2>1. DependencyTypes' /\ JobsOK'
    BY <1>1, <1>4 DEF DependencyTypes, JobsOK, JobOK, Written
  <2>2. FoundWhenSettled' /\ OverwritesExpected' /\ EditsHeld'
    BY <1>1, <1>4 DEF FoundWhenSettled, Settled, HalfApplied, MakesOf, OverwritesExpected,
                     EditsHeld, Survives
  <2> QED BY <1>3, <2>1, <2>2
<1>5. CASE /\ deps_queue' = Append(deps_queue, deps_tool)
           /\ deps_sent' = IF deps_tool.kind = "apply" THEN deps_sent \cup {deps_tool.id}
                           ELSE deps_sent
  <2>0. PICK end : end = Len(deps_queue) + 1
    OBVIOUS
  <2>1. /\ deps_queue' \in Seq(JobRows) /\ DOMAIN deps_queue' = DOMAIN deps_queue \cup {end}
        /\ deps_queue'[end] = deps_tool /\ deps_queue' # <<>>
        /\ \A i \in DOMAIN deps_queue : deps_queue'[i] = deps_queue[i] /\ i # end
    BY <1>2, <1>5, <2>0
  <2>2. deps_sent \subseteq deps_sent' /\ deps_sent' \subseteq DOMAIN deps_proposals
        /\ (deps_tool.kind = "apply" => deps_tool.id \in deps_sent')
    BY <1>2, <1>5
  <2>3. DependencyTypes'
    BY <1>1, <2>1, <2>2 DEF DependencyTypes
  <2>4. \A i \in DOMAIN deps_queue : JobOK(i)'
    BY <1>1, <2>1, <2>2 DEF JobsOK, JobOK, Written
  <2>5. JobOK(end)'
    <3>1. \A f \in {1, 2} : deps_queue'[end].bytes[f] = None
      BY <1>2, <2>1
    <3>2. deps_queue'[end].at = "asked" /\ "asked" \notin Applying
      BY <1>2, <2>1 DEF Applying
    <3> QED BY <1>2, <2>1, <2>2, <3>1, <3>2, ContentAssumption DEF JobOK, Written
  <2>6. JobsOK'
    BY <1>1, <2>1, <2>4, <2>5 DEF JobsOK
  <2>7. FoundWhenSettled'
    <3>1. \A f \in {1, 2} : deps_queue'[end].bytes[f] = None
      BY <1>2, <2>1
    <3>2. \A id \in DOMAIN deps_proposals : MakesOf(id) # None
      BY ContentAssumption DEF ContentsAreNew, MakesNew
    <3>3. \A id \in DOMAIN deps_proposals :
            /\ Settled(id)' <=> Settled(id)
            /\ MakesOf(id)' = MakesOf(id)
            /\ HalfApplied(id) => HalfApplied(id)'
      <4>1. deps_queue # <<>> => 1 \in DOMAIN deps_queue
        BY <1>2
      <4> QED BY <1>1, <2>1, <4>1 DEF Settled, MakesOf, HalfApplied
    <3> QED BY <1>1, <2>1, <3>1, <3>2, <3>3 DEF FoundWhenSettled
  <2>8. OverwritesExpected'
    <3>1. CASE deps_queue = <<>>
      <4>1. deps_queue'[1].at = "asked"
        BY <1>2, <2>0, <2>1, <3>1
      <4> QED BY <4>1 DEF OverwritesExpected
    <3>2. CASE deps_queue # <<>>
      <4>1. deps_queue'[1] = deps_queue[1]
        BY <1>2, <2>1, <3>2
      <4> QED BY <1>1, <3>2, <4>1 DEF OverwritesExpected
    <3> QED BY <3>1, <3>2
  <2>9. EditsHeld'
    BY <1>1, <2>2 DEF EditsHeld, Survives
  <2> QED BY <1>3, <2>3, <2>6, <2>7, <2>8, <2>9
<1> QED BY <1>4, <1>5 DEF Dependencies!Decide

\* The broker's first operation is over, or goes on, whatever it did to the files.
LEMMA DoneKeeps ==
  ASSUME DependencyInv, deps_queue # <<>>, Dependencies!Done, SameProposals,
         deps_previews' \subseteq deps_previews,
         UNCHANGED <<deps_turn, deps_tool, deps_fresh, deps_text, deps_sent>>,
         deps_torn \subseteq deps_torn', deps_disk' \in Contained,
         \A f \in {1, 2} : Written(deps_disk[f])',
         \A id \in DOMAIN deps_proposals, f \in {1, 2} :
           deps_disk'[f] = MakesOf(id) => Settled(id)',
         EditsHeld'
  PROVE  DependencyInv'
<1> USE DEF DependencyInv
<1>1. /\ deps_queue' \in Seq(JobRows)
      /\ \A i \in DOMAIN deps_queue' : /\ i \in Nat /\ i + 1 \in DOMAIN deps_queue
                                       /\ deps_queue'[i] = deps_queue[i + 1]
                                       /\ deps_queue'[i].at = "asked"
                                       /\ deps_queue'[i].applied = {}
  BY FirstIsDone
<1>2. \A id \in DOMAIN deps_proposals : /\ MakesOf(id)' = MakesOf(id)
                                        /\ Settled(id) => Settled(id)'
  BY SettledStays DEF SameProposals, MakesOf
<1>3. DependencyTypes'
  BY <1>1 DEF DependencyTypes, SameProposals
<1>4. ContentsAreNew'
  BY ContentsStayNew
<1>5. JobsOK'
  <2>1. ASSUME NEW i \in DOMAIN deps_queue' PROVE JobOK(i)'
    <3>1. JobOK(i + 1) /\ deps_queue'[i] = deps_queue[i + 1] /\ deps_queue'[i].at = "asked"
      BY <1>1 DEF JobsOK
    <3> QED BY <3>1 DEF JobOK, Written
  <2> QED BY <2>1 DEF JobsOK, SameProposals
<1>6. FoundWhenSettled'
  BY <1>1, <1>2 DEF FoundWhenSettled, SameProposals
<1>7. OverwritesExpected'
  <2>1. deps_queue' # <<>> => deps_queue'[1].at = "asked"
    BY <1>1
  <2> QED BY <2>1 DEF OverwritesExpected
<1> QED BY <1>3, <1>4, <1>5, <1>6, <1>7

LEMMA GoingOnKeeps ==
  ASSUME DependencyInv, deps_queue # <<>>, SameProposals,
         NEW job \in JobRows, deps_queue' = [deps_queue EXCEPT ![1] = job],
         UNCHANGED <<deps_previews, deps_turn, deps_tool, deps_fresh, deps_text, deps_sent, deps_torn>>,
         job.kind = deps_queue[1].kind, job.id = deps_queue[1].id,
         job.kind = "preview" => job.applied = {},
         \A f \in {1, 2} : Written(job.bytes[f]),
         \A id \in DOMAIN deps_proposals, f \in {1, 2} :
           job.bytes[f] = MakesOf(id) => Settled(id),
         job.at # "asked", job.at \in Applying <=> job.kind = "apply",
         job.at = "putBack" => job.file = 1,
         deps_disk' \in Contained, \A f \in {1, 2} : Written(deps_disk[f])',
         \A id \in DOMAIN deps_proposals :
           /\ deps_disk'[1] = MakesOf(id) => \/ Settled(id)
                                             \/ job.kind = "apply" /\ job.id = id /\ job.applied = {1}
           /\ deps_disk'[2] = MakesOf(id) => Settled(id),
         job.at = "replace" /\ job.file \notin deps_hit' =>
           deps_disk'[job.file] = deps_proposals[job.id].before[job.file],
         job.at = "putBack" /\ 1 \notin deps_hit' =>
           deps_disk'[1] = deps_proposals[job.id].after[1],
         EditsHeld'
  PROVE  DependencyInv'
<1> USE DEF DependencyInv
<1>1. /\ deps_queue' \in Seq(JobRows) /\ deps_queue' # <<>>
      /\ DOMAIN deps_queue' = DOMAIN deps_queue
      /\ deps_queue'[1] = job
      /\ \A i \in DOMAIN deps_queue : i # 1 => deps_queue'[i] = deps_queue[i]
  BY FirstGoesOn
<1>2. \A id \in DOMAIN deps_proposals : /\ MakesOf(id)' = MakesOf(id)
                                        /\ Settled(id) => Settled(id)'
  BY SettledStays DEF SameProposals, MakesOf
<1>3. JobOK(1) /\ 1 \in DOMAIN deps_queue
  BY HeadIsJob
<1>4. DependencyTypes'
  BY <1>1 DEF DependencyTypes, SameProposals
<1>5. ContentsAreNew'
  BY ContentsStayNew
<1>6. JobsOK'
  <2>1. JobOK(1)'
    <3>1. \A f \in {1, 2} : Written(job.bytes[f])'
      BY DEF Written
    <3> QED BY <1>1, <1>3, <3>1 DEF JobOK
  <2>2. ASSUME NEW i \in DOMAIN deps_queue, i # 1 PROVE JobOK(i)'
    <3>1. JobOK(i) /\ deps_queue'[i] = deps_queue[i]
      BY <1>1, <2>2 DEF JobsOK
    <3> QED BY <3>1 DEF JobOK, Written
  <2> QED BY <1>1, <2>1, <2>2 DEF JobsOK, SameProposals
<1>7. FoundWhenSettled'
  <2>1. ASSUME NEW id \in DOMAIN deps_proposals, NEW i \in DOMAIN deps_queue, NEW f \in {1, 2},
               deps_queue'[i].bytes[f] = MakesOf(id)
        PROVE  Settled(id)'
    <3>1. CASE i = 1
      BY <1>1, <1>2, <2>1, <3>1
    <3>2. CASE i # 1
      <4>1. deps_queue[i].bytes[f] = MakesOf(id)
        BY <1>1, <2>1, <3>2
      <4> QED BY <1>2, <4>1 DEF FoundWhenSettled
    <3> QED BY <3>1, <3>2
  <2>2. ASSUME NEW id \in DOMAIN deps_proposals
        PROVE  /\ deps_disk'[1] = MakesOf(id) => Settled(id)' \/ HalfApplied(id)'
               /\ deps_disk'[2] = MakesOf(id) => Settled(id)'
    BY <1>1, <1>2, <2>2 DEF HalfApplied
  <2>3. ASSUME NEW id \in DOMAIN deps_proposals
        PROVE  \A f \in {1, 2}, j \in DOMAIN deps_proposals :
                 deps_proposals'[j].before[f] = MakesOf(id) => Settled(id)'
    BY <1>2, <2>3 DEF FoundWhenSettled, SameProposals
  <2>4. DOMAIN deps_proposals' = DOMAIN deps_proposals
    BY DEF SameProposals
  <2>5. SUFFICES ASSUME NEW id \in DOMAIN deps_proposals
                 PROVE  /\ deps_disk'[1] = MakesOf(id) => Settled(id)' \/ HalfApplied(id)'
                        /\ deps_disk'[2] = MakesOf(id) => Settled(id)'
                        /\ \A f \in {1, 2} :
                             /\ \A j \in DOMAIN deps_proposals' :
                                  deps_proposals'[j].before[f] = MakesOf(id) => Settled(id)'
                             /\ \A i \in DOMAIN deps_queue' :
                                  deps_queue'[i].bytes[f] = MakesOf(id) => Settled(id)'
    BY <1>2, <2>4 DEF FoundWhenSettled
  <2> QED BY <1>1, <2>1, <2>2, <2>3, <2>4
<1>8. OverwritesExpected'
  <2>1. job.kind = "apply" => job.id \in DOMAIN deps_proposals
    BY <1>3 DEF JobOK, DependencyTypes
  <2>2. job.at \in {"replace", "putBack"} => job.kind = "apply"
    BY DEF Applying
  <2>3. ASSUME job.kind = "apply"
        PROVE  /\ deps_proposals'[job.id].before = deps_proposals[job.id].before
               /\ deps_proposals'[job.id].after = deps_proposals[job.id].after
    BY <2>1, <2>3 DEF SameProposals
  <2>4. job.at = "replace" /\ job.file \notin deps_hit' =>
          deps_disk'[job.file] = deps_proposals'[job.id].before[job.file]
    BY <2>2, <2>3
  <2>5. job.at = "putBack" /\ 1 \notin deps_hit' =>
          deps_disk'[1] = deps_proposals'[job.id].after[1]
    BY <2>2, <2>3
  <2> QED BY <1>1, <2>4, <2>5 DEF OverwritesExpected
<1> QED BY <1>4, <1>5, <1>6, <1>7, <1>8

\* The same when it leaves the files alone.
LEMMA RestingFiles ==
  ASSUME DependencyInv, SameProposals,
         UNCHANGED <<deps_disk, deps_text, deps_fresh, deps_hit, deps_sent>>
  PROVE  /\ deps_disk' \in Contained
         /\ \A f \in {1, 2} : Written(deps_disk[f])'
         /\ EditsHeld'
BY DEF DependencyInv, DependencyTypes, ContentsAreNew, Written, EditsHeld, Survives, SameProposals

LEMMA SameRows == DependencyTypes /\ UNCHANGED deps_proposals => SameProposals
BY DEF DependencyTypes, SameProposals

LEMMA DoneRestsFiles ==
  ASSUME DependencyInv, deps_queue # <<>>, Dependencies!Done, SameProposals,
         UNCHANGED <<deps_disk, deps_turn, deps_previews, deps_tool, deps_fresh, deps_text, deps_hit,
                     deps_sent>>,
         deps_torn \subseteq deps_torn',
         \A id \in DOMAIN deps_proposals :
           HalfApplied(id) /\ deps_disk[1] = MakesOf(id) => Settled(id)'
  PROVE  DependencyInv'
<1>1. ASSUME NEW id \in DOMAIN deps_proposals, NEW f \in {1, 2}, deps_disk[f] = MakesOf(id)
      PROVE  Settled(id)'
  <2>1. Settled(id) \/ (f = 1 /\ HalfApplied(id))
    BY <1>1 DEF DependencyInv, FoundWhenSettled
  <2> QED BY <1>1, <2>1, SettledStays
<1> QED BY <1>1, RestingFiles, DoneKeeps

LEMMA GoingOnRestsFiles ==
  ASSUME DependencyInv, deps_queue # <<>>, SameProposals,
         NEW job \in JobRows, deps_queue' = [deps_queue EXCEPT ![1] = job],
         UNCHANGED <<deps_disk, deps_previews, deps_turn, deps_tool, deps_fresh, deps_text, deps_hit,
                     deps_sent, deps_torn>>,
         job.kind = deps_queue[1].kind, job.id = deps_queue[1].id,
         job.applied = deps_queue[1].applied, job.bytes = deps_queue[1].bytes,
         job.at # "asked", job.at \in Applying <=> job.kind = "apply",
         job.at = "putBack" => job.file = 1,
         job.at = "replace" /\ job.file \notin deps_hit =>
           deps_disk[job.file] = deps_proposals[job.id].before[job.file],
         job.at = "putBack" /\ 1 \notin deps_hit =>
           deps_disk[1] = deps_proposals[job.id].after[1]
  PROVE  DependencyInv'
<1>1. JobOK(1) /\ 1 \in DOMAIN deps_queue
  BY HeadIsJob DEF DependencyInv
<1>2. /\ job.kind = "preview" => job.applied = {}
      /\ \A f \in {1, 2} : Written(job.bytes[f])
  BY <1>1 DEF JobOK
<1>3. \A id \in DOMAIN deps_proposals, f \in {1, 2} : job.bytes[f] = MakesOf(id) => Settled(id)
  BY <1>1 DEF DependencyInv, FoundWhenSettled
<1>4. \A id \in DOMAIN deps_proposals :
        /\ deps_disk[1] = MakesOf(id) => \/ Settled(id)
                                         \/ job.kind = "apply" /\ job.id = id /\ job.applied = {1}
        /\ deps_disk[2] = MakesOf(id) => Settled(id)
  BY DEF DependencyInv, FoundWhenSettled, HalfApplied
<1> QED BY <1>2, <1>3, <1>4, RestingFiles, GoingOnKeeps

\* How the broker's first operation is written when it goes on.
LEMMA OnAt ==
  ASSUME DependencyTypes, deps_queue # <<>>, NEW at \in {"asked", "read", "run"} \cup Applying
  PROVE  LET job == [deps_queue[1] EXCEPT !.at = at]
         IN  /\ job \in JobRows
             /\ Dependencies!Now(at) => deps_queue' = [deps_queue EXCEPT ![1] = job]
             /\ job.at = at /\ job.kind = deps_queue[1].kind /\ job.id = deps_queue[1].id
             /\ job.file = deps_queue[1].file
             /\ job.applied = deps_queue[1].applied /\ job.bytes = deps_queue[1].bytes
<1>1. deps_queue \in Seq(JobRows) /\ 1 \in DOMAIN deps_queue
  BY DEF DependencyTypes
<1>2. deps_queue[1] \in JobRows
  BY <1>1
<1> QED BY <1>2 DEF JobRows, Dependencies!Now

\* The broker prunes, and begins an operation or refuses it.
LEMMA BeginningKeepsFiles ==
  ASSUME DependencyInv, NEW gone, gone \subseteq Dependencies!Live,
         Dependencies!BeginPreview(gone) \/ Dependencies!BeginApply(gone)
  PROVE  DependencyInv'
<1>1. /\ deps_queue # <<>> /\ Dependencies!Job.at = "asked"
      /\ deps_proposals' = Dependencies!Pruned(gone)
      /\ UNCHANGED <<deps_disk, deps_turn, deps_previews, deps_tool, deps_fresh, deps_text,
                     deps_hit, deps_sent, deps_torn>>
      /\ \/ Dependencies!Done
         \/ Dependencies!Job.kind = "preview" /\ Dependencies!Now("read")
         \/ Dependencies!Job.kind = "apply" /\ Dependencies!Now("check")
  BY DEF Dependencies!BeginPreview, Dependencies!BeginApply, Dependencies!Doing,
         Dependencies!history
<1>2. DependencyTypes /\ JobsOK
  BY DEF DependencyInv
<1>3. SameProposals
  BY <1>1, <1>2, PruningKeepsProposals
<1>4. /\ Dependencies!Job = deps_queue[1] /\ JobOK(1)
  BY <1>1, <1>2, HeadIsJob
<1>5. deps_queue[1].applied = {}
  BY <1>1, <1>4 DEF JobOK
<1>6. CASE Dependencies!Done
  BY <1>1, <1>3, <1>5, <1>6, DoneRestsFiles DEF HalfApplied
<1>7. ASSUME NEW at \in {"read", "check"}, Dependencies!Now(at),
             at = "check" <=> deps_queue[1].kind = "apply"
      PROVE  DependencyInv'
  <2> DEFINE job == [deps_queue[1] EXCEPT !.at = at]
  <2>1. at \in {"asked", "read", "run"} \cup Applying
    BY DEF Applying
  <2>2. /\ job \in JobRows /\ deps_queue' = [deps_queue EXCEPT ![1] = job]
        /\ job.at = at /\ job.kind = deps_queue[1].kind /\ job.id = deps_queue[1].id
        /\ job.applied = deps_queue[1].applied /\ job.bytes = deps_queue[1].bytes
    BY <1>1, <1>2, <1>7, <2>1, OnAt
  <2> HIDE DEF job
  <2>3. job.at \in Applying <=> job.kind = "apply"
    BY <1>7, <2>2 DEF Applying
  <2> QED BY <1>1, <1>3, <2>2, <2>3, GoingOnRestsFiles
<1>8. deps_queue[1].kind \in {"preview", "apply"} /\ "preview" # "apply"
  BY <1>1, <1>2, HeadIsJob DEF JobRows
<1> QED BY <1>1, <1>4, <1>6, <1>7, <1>8

\* A file is read for a preview.
LEMMA ReadKeepsFiles ==
  ASSUME DependencyInv, Dependencies!Read
  PROVE  DependencyInv'
<1>1. /\ deps_queue # <<>> /\ Dependencies!Job.at = "read"
      /\ UNCHANGED <<deps_disk, deps_turn, deps_previews, deps_tool, deps_proposals, deps_fresh,
                     deps_text, deps_hit, deps_sent, deps_torn>>
  BY DEF Dependencies!Read, Dependencies!Doing, Dependencies!history
<1>2. DependencyTypes /\ JobsOK
  BY DEF DependencyInv
<1>3. SameProposals
  BY <1>1, <1>2, SameRows
<1>4. /\ Dependencies!Job = deps_queue[1] /\ deps_queue[1] \in JobRows /\ JobOK(1)
      /\ 1 \in DOMAIN deps_queue
  BY <1>1, <1>2, HeadIsJob
<1>5. deps_queue[1].kind = "preview" /\ deps_queue[1].applied = {}
  BY <1>1, <1>4 DEF JobOK, JobRows, Applying
<1>6. CASE Dependencies!Done
  BY <1>1, <1>3, <1>5, <1>6, DoneRestsFiles DEF HalfApplied
<1>7. CASE ~Dependencies!Done
  <2> DEFINE f == deps_queue[1].file
  <2> DEFINE bytes == [deps_queue[1].bytes EXCEPT ![f] = deps_disk[f]]
  <2> DEFINE job == [deps_queue[1] EXCEPT !.bytes = bytes, !.file = 2,
                                          !.at = IF f = 2 THEN "run" ELSE "read"]
  <2>1. deps_queue' = [deps_queue EXCEPT ![1] = job]
    <3>1. deps_queue' = [deps_queue EXCEPT ![1].bytes[f] = deps_disk[f], ![1].file = 2,
                                           ![1].at = IF f = 2 THEN "run" ELSE "read"]
      BY <1>4, <1>7 DEF Dependencies!Read, Dependencies!Lock
    <3>2. deps_queue \in Seq(JobRows)
      BY <1>2 DEF DependencyTypes
    <3> QED BY <1>4, <3>1, <3>2
  <2>2. f \in {1, 2} /\ deps_queue[1].bytes \in Contained /\ deps_disk \in Contained
    BY <1>2, <1>4 DEF JobRows, DependencyTypes
  <2>3. bytes \in Contained /\ \A g \in {1, 2} : bytes[g] \in {deps_queue[1].bytes[g], deps_disk[g]}
    BY <2>2 DEF Contained
  <2>4. /\ job \in JobRows /\ job.bytes = bytes /\ job.at \in {"read", "run"}
        /\ job.kind = deps_queue[1].kind /\ job.id = deps_queue[1].id
        /\ job.applied = deps_queue[1].applied
    BY <1>4, <2>3 DEF JobRows
  <2> HIDE DEF job, bytes
  <2>5. \A g \in {1, 2} : Written(job.bytes[g])
    BY <1>4, <2>3, <2>4 DEF JobOK, DependencyInv, ContentsAreNew, Written
  <2>6. \A id \in DOMAIN deps_proposals : ~HalfApplied(id)
    BY <1>5 DEF HalfApplied
  <2>7. \A id \in DOMAIN deps_proposals, g \in {1, 2} :
          /\ deps_disk[g] = MakesOf(id) => Settled(id)
          /\ job.bytes[g] = MakesOf(id) => Settled(id)
    BY <1>4, <2>3, <2>4, <2>6 DEF DependencyInv, FoundWhenSettled
  <2>8. job.at \notin Applying /\ job.at # "asked" /\ job.at \notin {"replace", "putBack"}
    BY <2>4 DEF Applying
  <2> QED BY <1>1, <1>3, <1>5, <2>1, <2>4, <2>5, <2>7, <2>8, RestingFiles, GoingOnKeeps
<1> QED BY <1>6, <1>7

\* Before a file is replaced it is looked at; or the application has failed.
LEMMA CheckKeepsFiles ==
  ASSUME DependencyInv, Dependencies!Check
  PROVE  DependencyInv'
<1>1. /\ deps_queue # <<>> /\ Dependencies!Job.at = "check"
      /\ UNCHANGED <<deps_disk, deps_turn, deps_previews, deps_tool, deps_proposals, deps_fresh,
                     deps_text, deps_hit, deps_sent, deps_torn>>
  BY DEF Dependencies!Check, Dependencies!Doing, Dependencies!history
<1>2. DependencyTypes /\ JobsOK
  BY DEF DependencyInv
<1>3. SameProposals
  BY <1>1, <1>2, SameRows
<1>4. Dependencies!Job = deps_queue[1] /\ JobOK(1)
  BY <1>1, <1>2, HeadIsJob
<1>5. deps_queue[1].kind = "apply"
  BY <1>1, <1>4 DEF JobOK, Applying
<1>6. ASSUME NEW at \in {"replace", "rollBack"}, Dependencies!Now(at),
             at = "replace" => Dependencies!Replaces(Dependencies!Job.file)
      PROVE  DependencyInv'
  <2> DEFINE job == [deps_queue[1] EXCEPT !.at = at]
  <2>1. at \in {"asked", "read", "run"} \cup Applying
    BY DEF Applying
  <2>2. /\ job \in JobRows /\ deps_queue' = [deps_queue EXCEPT ![1] = job]
        /\ job.at = at /\ job.kind = deps_queue[1].kind /\ job.id = deps_queue[1].id
        /\ job.file = deps_queue[1].file
        /\ job.applied = deps_queue[1].applied /\ job.bytes = deps_queue[1].bytes
    BY <1>1, <1>2, <1>6, <2>1, OnAt
  <2> HIDE DEF job
  <2>3. job.at \in Applying /\ job.at # "asked" /\ job.at # "putBack"
    BY <2>2 DEF Applying
  <2>4. job.at = "replace" => deps_disk[job.file] = deps_proposals[job.id].before[job.file]
    BY <1>4, <1>6, <2>2 DEF Dependencies!Replaces, Dependencies!Proposal
  <2> QED BY <1>1, <1>3, <1>5, <2>2, <2>3, <2>4, GoingOnRestsFiles
<1> QED BY <1>6 DEF Dependencies!Check

\* The preview is over, and may have made a proposal of what it read.
LEMMA ProposingKeepsFiles ==
  ASSUME DependencyInv, Dependencies!Ran
  PROVE  DependencyInv'
<1>1. /\ deps_queue # <<>> /\ Dependencies!Job.at = "run" /\ Dependencies!Done
      /\ UNCHANGED <<deps_disk, deps_turn, deps_tool, deps_text, deps_hit, deps_sent, deps_torn>>
  BY DEF Dependencies!Ran, Dependencies!Doing, Dependencies!history
<1>2. DependencyTypes /\ JobsOK
  BY DEF DependencyInv
<1>3. /\ Dependencies!Job = deps_queue[1] /\ deps_queue[1] \in JobRows /\ JobOK(1)
      /\ 1 \in DOMAIN deps_queue
  BY <1>1, <1>2, HeadIsJob
<1>4. deps_queue[1].kind = "preview"
  BY <1>1, <1>3 DEF JobOK, JobRows, Applying
<1>5. CASE UNCHANGED <<deps_fresh, deps_proposals, deps_previews>>
  BY <1>1, <1>2, <1>4, <1>5, SameRows, DoneRestsFiles DEF HalfApplied
<1>6. CASE ~UNCHANGED <<deps_fresh, deps_proposals, deps_previews>>
  <2> DEFINE bytes == deps_queue[1].bytes
  <2>1. PICK lock \in {deps_fresh + 1, bytes[2], None} :
          deps_proposals' = Append(deps_proposals,
            [before |-> bytes, after |-> <<deps_fresh + 1, lock>>,
             targets |-> deps_queue[1].hash, turn |-> deps_queue[1].turn, status |-> "live"])
    BY <1>3, <1>6 DEF Dependencies!Ran, Dependencies!Proposed, Dependencies!Lock
  <2>2. /\ deps_fresh' = deps_fresh + 1
        /\ deps_previews' \subseteq deps_previews \cup {Len(deps_proposals) + 1}
    BY <1>6 DEF Dependencies!Ran
  <2>3. /\ deps_proposals \in Seq(ProposalRows) /\ deps_queue \in Seq(JobRows)
        /\ deps_fresh \in Nat /\ deps_fresh >= 1 /\ deps_turn \in Nat
        /\ deps_previews \subseteq DOMAIN deps_proposals
        /\ deps_sent \subseteq DOMAIN deps_proposals
        /\ bytes \in Contained /\ deps_queue[1].hash \in Contained /\ deps_queue[1].turn \in Nat
    BY <1>2, <1>3 DEF DependencyTypes, JobRows
  <2>4. /\ \A f \in {1, 2} : bytes[f] \in Nat => bytes[f] <= deps_fresh
        /\ \A id \in DOMAIN deps_proposals, f \in {1, 2} : bytes[f] = MakesOf(id) => Settled(id)
    BY <1>3 DEF JobOK, Written, DependencyInv, FoundWhenSettled
  <2>5. <<deps_fresh + 1, lock>> \in Contained
    BY <2>3 DEF Contained, Contents
  <2> DEFINE made == [before |-> bytes, after |-> <<deps_fresh + 1, lock>>,
                      targets |-> deps_queue[1].hash, turn |-> deps_queue[1].turn, status |-> "live"]
  <2>6. made \in ProposalRows /\ made.before = bytes /\ made.after = <<deps_fresh + 1, lock>>
    BY <2>3, <2>5 DEF ProposalRows
  <2> HIDE DEF made, bytes
  <2>7. PICK new : new = Len(deps_proposals) + 1
    OBVIOUS
  <2>8. /\ deps_proposals' \in Seq(ProposalRows)
        /\ DOMAIN deps_proposals' = DOMAIN deps_proposals \cup {new}
        /\ deps_proposals'[new] = made
        /\ \A id \in DOMAIN deps_proposals : deps_proposals'[id] = deps_proposals[id] /\ id # new
    BY <2>1, <2>3, <2>6, <2>7 DEF made
  <2>9. /\ deps_queue' \in Seq(JobRows)
        /\ \A i \in DOMAIN deps_queue' : /\ i \in Nat /\ i + 1 \in DOMAIN deps_queue
                                         /\ deps_queue'[i] = deps_queue[i + 1]
                                         /\ deps_queue'[i].at = "asked"
                                         /\ deps_queue'[i].applied = {}
    BY <1>1, <1>2, FirstIsDone
  <2>10. /\ MakesOf(new)' = deps_fresh + 1
         /\ \A id \in DOMAIN deps_proposals : /\ MakesOf(id)' = MakesOf(id)
                                              /\ Settled(id)' <=> Settled(id)
                                              /\ MakesOf(id) \in 2..deps_fresh
    <3>1. MakesOf(new)' = deps_fresh + 1
      BY <2>6, <2>8 DEF MakesOf
    <3>2. \A id \in DOMAIN deps_proposals : MakesOf(id) \in 2..deps_fresh
      BY DEF DependencyInv, ContentsAreNew, MakesNew
    <3> QED BY <1>1, <2>8, <3>1, <3>2 DEF MakesOf, Settled
  <2>11. \A f \in {1, 2} : /\ Written(deps_disk[f]) /\ Written(deps_text[f])
                           /\ \A id \in DOMAIN deps_proposals :
                                deps_proposals[id].before[f] \in Nat
                                  => deps_proposals[id].before[f] < MakesOf(id)
                           /\ \A i \in DOMAIN deps_queue : Written(deps_queue[i].bytes[f])
    BY <1>2 DEF DependencyInv, ContentsAreNew, MakesNew, JobsOK, JobOK
  <2>12. DependencyTypes'
    BY <1>1, <1>2, <2>2, <2>3, <2>7, <2>8, <2>9 DEF DependencyTypes
  <2>13. MakesNew(new)'
    <3>1. MakesOf(new)' \in 2..deps_fresh'
      BY <2>2, <2>3, <2>10
    <3>2. deps_proposals'[new].after[2] \in {deps_fresh + 1, deps_proposals'[new].before[2], None}
      BY <2>1, <2>6, <2>8
    <3>3. \A f \in {1, 2} : /\ deps_proposals'[new].before[f] \in Nat
                                 => deps_proposals'[new].before[f] < deps_fresh + 1
                            /\ deps_text'[f] # deps_fresh + 1
      BY <1>1, <2>3, <2>4, <2>6, <2>8, <2>11 DEF Written
    <3>4. \A other \in DOMAIN deps_proposals' : MakesOf(other)' = deps_fresh + 1 => other = new
      BY <2>3, <2>8, <2>10
    <3> QED BY <2>10, <3>1, <3>2, <3>3, <3>4 DEF MakesNew
  <2>14. ContentsAreNew'
    <3>1. ASSUME NEW id \in DOMAIN deps_proposals PROVE MakesNew(id)'
      <4>1. MakesNew(id) /\ deps_proposals'[id] = deps_proposals[id]
        BY <2>8 DEF DependencyInv, ContentsAreNew
      <4>2. MakesOf(id)' \in 2..deps_fresh' /\ MakesOf(id)' # MakesOf(new)'
        BY <2>2, <2>3, <2>10
      <4> QED BY <1>1, <2>8, <2>10, <4>1, <4>2 DEF MakesNew
    <3>2. \A f \in {1, 2} : Written(deps_disk[f])' /\ Written(deps_text[f])'
      BY <1>1, <2>2, <2>3, <2>11 DEF Written
    <3> QED BY <2>8, <2>13, <3>1, <3>2 DEF ContentsAreNew
  <2>15. JobsOK'
    <3>1. ASSUME NEW i \in DOMAIN deps_queue' PROVE JobOK(i)'
      <4>1. JobOK(i + 1) /\ deps_queue'[i] = deps_queue[i + 1] /\ deps_queue'[i].at = "asked"
        BY <1>2, <2>9 DEF JobsOK
      <4>2. \A f \in {1, 2} : Written(deps_queue[i].bytes[f])'
        BY <2>2, <2>3, <2>9, <2>11 DEF Written
      <4> QED BY <1>1, <4>1, <4>2 DEF JobOK
    <3> QED BY <1>1, <1>2, <2>8, <3>1 DEF JobsOK
  <2>16. FoundWhenSettled'
    <3>1. \A f \in {1, 2} : /\ deps_disk'[f] # MakesOf(new)'
                            /\ \A j \in DOMAIN deps_proposals' :
                                 deps_proposals'[j].before[f] # MakesOf(new)'
                            /\ \A i \in DOMAIN deps_queue' :
                                 deps_queue'[i].bytes[f] # MakesOf(new)'
      <4> SUFFICES ASSUME NEW f \in {1, 2}
                   PROVE  /\ deps_disk[f] # deps_fresh + 1
                          /\ \A j \in DOMAIN deps_proposals' :
                               deps_proposals'[j].before[f] # deps_fresh + 1
                          /\ \A i \in DOMAIN deps_queue' :
                               deps_queue'[i].bytes[f] # deps_fresh + 1
        BY <1>1, <2>10
      <4>1. deps_disk[f] # deps_fresh + 1
        BY <2>3, <2>11 DEF Written
      <4>2. deps_proposals'[new].before[f] # deps_fresh + 1
        BY <2>3, <2>4, <2>6, <2>8
      <4>3. ASSUME NEW j \in DOMAIN deps_proposals
            PROVE  deps_proposals'[j].before[f] # deps_fresh + 1
        <5>1. /\ deps_proposals'[j].before[f] = deps_proposals[j].before[f]
              /\ MakesOf(j) \in 2..deps_fresh
          BY <2>8, <2>10
        <5>2. deps_proposals[j].before[f] \in Nat => deps_proposals[j].before[f] < MakesOf(j)
          BY <2>11
        <5> QED BY <2>3, <5>1, <5>2
      <4>4. ASSUME NEW i \in DOMAIN deps_queue'
            PROVE  deps_queue'[i].bytes[f] # deps_fresh + 1
        <5>1. i + 1 \in DOMAIN deps_queue /\ deps_queue'[i].bytes[f] = deps_queue[i + 1].bytes[f]
          BY <2>9
        <5>2. Written(deps_queue[i + 1].bytes[f])
          BY <2>11, <5>1
        <5> QED BY <2>3, <5>1, <5>2 DEF Written
      <4> QED BY <2>8, <4>1, <4>2, <4>3, <4>4
    <3>2. ASSUME NEW id \in DOMAIN deps_proposals
          PROVE  /\ deps_disk'[1] = MakesOf(id)' => Settled(id)'
                 /\ deps_disk'[2] = MakesOf(id)' => Settled(id)'
                 /\ \A f \in {1, 2} :
                      /\ \A j \in DOMAIN deps_proposals' :
                           deps_proposals'[j].before[f] = MakesOf(id)' => Settled(id)'
                      /\ \A i \in DOMAIN deps_queue' :
                           deps_queue'[i].bytes[f] = MakesOf(id)' => Settled(id)'
      <4>1. ~HalfApplied(id)
        BY <1>4 DEF HalfApplied
      <4> QED BY <1>1, <2>4, <2>6, <2>8, <2>9, <2>10, <4>1 DEF DependencyInv, FoundWhenSettled
    <3> QED BY <2>8, <3>1, <3>2 DEF FoundWhenSettled
  <2>17. OverwritesExpected'
    <3>1. deps_queue' # <<>> => deps_queue'[1].at = "asked"
      BY <2>9
    <3> QED BY <3>1 DEF OverwritesExpected
  <2>18. EditsHeld'
    BY <1>1, <2>3, <2>8 DEF DependencyInv, EditsHeld, Survives
  <2> QED BY <2>12, <2>14, <2>15, <2>16, <2>17, <2>18 DEF DependencyInv
<1> QED BY <1>5, <1>6

\* What an operation that applies a proposal knows of it.
LEMMA AppliesProposal ==
  ASSUME DependencyInv, deps_queue # <<>>, deps_queue[1].at \in Applying
  PROVE  LET id == deps_queue[1].id IN
         /\ Dependencies!Job = deps_queue[1] /\ deps_queue[1] \in JobRows
         /\ deps_queue[1].kind = "apply" /\ id \in deps_sent /\ id \in DOMAIN deps_proposals
         /\ Dependencies!Proposal = deps_proposals[id] /\ deps_proposals[id] \in ProposalRows
         /\ MakesNew(id)
<1>1. DependencyTypes /\ JobsOK
  BY DEF DependencyInv
<1>2. Dependencies!Job = deps_queue[1] /\ deps_queue[1] \in JobRows /\ JobOK(1)
  BY <1>1, HeadIsJob
<1>3. deps_queue[1].kind = "apply" /\ deps_queue[1].id \in deps_sent
  BY <1>2 DEF JobOK
<1>4. deps_queue[1].id \in DOMAIN deps_proposals /\ deps_proposals \in Seq(ProposalRows)
  BY <1>1, <1>3 DEF DependencyTypes
<1> QED BY <1>2, <1>3, <1>4 DEF DependencyInv, ContentsAreNew, Dependencies!Proposal

\* A file is replaced: the user's edits that are lost with it were the proposal's.
LEMMA ReplacingKeepsFiles ==
  ASSUME DependencyInv, Dependencies!Replace
  PROVE  DependencyInv'
<1>0. PICK id, file : id = deps_queue[1].id /\ file = deps_queue[1].file
  OBVIOUS
<1>1. deps_queue # <<>> /\ Dependencies!Job.at = "replace" /\ Dependencies!Job = deps_queue[1]
  BY DEF Dependencies!Replace, Dependencies!Doing, Dependencies!Job
<1>2. /\ deps_queue[1] \in JobRows /\ deps_queue[1].kind = "apply"
      /\ id \in deps_sent /\ id \in DOMAIN deps_proposals
      /\ Dependencies!Proposal = deps_proposals[id] /\ deps_proposals[id] \in ProposalRows
      /\ MakesNew(id)
  BY <1>0, <1>1, AppliesProposal DEF Applying
<1>3. /\ UNCHANGED <<deps_turn, deps_tool, deps_fresh, deps_text, deps_hit, deps_sent, deps_torn>>
      /\ deps_disk' = [deps_disk EXCEPT ![file] = deps_proposals[id].after[file]]
  BY <1>0, <1>1, <1>2 DEF Dependencies!Replace, Dependencies!history
<1>4. DependencyTypes /\ JobsOK
  BY DEF DependencyInv
<1>5. /\ file \in {1, 2} /\ deps_disk \in Contained /\ deps_proposals \in Seq(ProposalRows)
      /\ deps_fresh \in Nat
      /\ deps_proposals[id].after \in Contained /\ deps_proposals[id].before \in Contained
  BY <1>0, <1>2, <1>4 DEF JobRows, ProposalRows, DependencyTypes
<1>6. /\ deps_disk' \in Contained /\ deps_disk'[file] = deps_proposals[id].after[file]
      /\ \A f \in {1, 2} : f # file => deps_disk'[f] = deps_disk[f]
  BY <1>3, <1>5 DEF Contained
<1>7. /\ deps_proposals[id].after[1] = MakesOf(id)
      /\ deps_proposals[id].after[2] \in {MakesOf(id), deps_proposals[id].before[2], None}
      /\ MakesOf(id) \in 2..deps_fresh
      /\ \A f \in {1, 2} :
           deps_proposals[id].before[f] \in Nat => deps_proposals[id].before[f] < MakesOf(id)
  BY <1>2 DEF MakesNew, MakesOf
<1>8. \A f \in {1, 2} : Written(deps_disk[f])'
  <2>1. \A f \in {1, 2} : Written(deps_disk[f])
    BY DEF DependencyInv, ContentsAreNew
  <2>2. deps_proposals[id].after[file] \in Nat => deps_proposals[id].after[file] <= deps_fresh
    <3>1. CASE file = 1
      BY <1>5, <1>7, <3>1
    <3>2. CASE file = 2
      BY <1>5, <1>7, <3>2, ContentAssumption
    <3> QED BY <1>5, <3>1, <3>2
  <2> QED BY <1>3, <1>6, <2>1, <2>2 DEF Written
<1>9. \A other \in DOMAIN deps_proposals :
        /\ MakesOf(other) \in Nat /\ (MakesOf(other) = MakesOf(id) => other = id)
        /\ deps_disk[1] = MakesOf(other) => Settled(other) \/ other = id
        /\ deps_disk[2] = MakesOf(other) => Settled(other)
        /\ deps_proposals[id].before[2] = MakesOf(other) => Settled(other)
  <2> TAKE other \in DOMAIN deps_proposals
  <2>1. MakesNew(other)
    BY DEF DependencyInv, ContentsAreNew
  <2>2. MakesOf(other) \in Nat
    BY <1>5, <2>1 DEF MakesNew
  <2>3. MakesOf(other) = MakesOf(id) => other = id
    BY <1>2 DEF MakesNew
  <2>4. HalfApplied(other) => other = id
    BY <1>0 DEF HalfApplied
  <2>5. /\ deps_disk[1] = MakesOf(other) => Settled(other) \/ HalfApplied(other)
        /\ deps_disk[2] = MakesOf(other) => Settled(other)
        /\ deps_proposals[id].before[2] = MakesOf(other) => Settled(other)
    BY <1>2 DEF DependencyInv, FoundWhenSettled
  <2> QED BY <2>2, <2>3, <2>4, <2>5
<1>10. ASSUME SameProposals PROVE EditsHeld'
  <2> SUFFICES ASSUME NEW f \in {1, 2}, f \notin deps_hit
               PROVE  \/ deps_disk'[f] = deps_text[f]
                      \/ \E s \in deps_sent : deps_proposals[s].before[f] = deps_text[f]
    BY <1>3, <1>4, <1>10 DEF EditsHeld, Survives, SameProposals, DependencyTypes
  <2>1. \/ deps_disk[f] = deps_text[f]
        \/ \E s \in deps_sent : deps_proposals[s].before[f] = deps_text[f]
    BY DEF DependencyInv, EditsHeld, Survives
  <2>2. CASE f # file
    BY <1>6, <2>1, <2>2
  <2>3. CASE f = file
    <3>1. deps_disk[f] = deps_proposals[id].before[f]
      BY <1>0, <1>1, <2>3 DEF DependencyInv, OverwritesExpected
    <3> QED BY <1>2, <2>1, <3>1
  <2> QED BY <2>2, <2>3
<1>11. CASE file = 2
  <2>1. /\ Dependencies!Done
        /\ deps_proposals' = [deps_proposals EXCEPT ![id].status = "applied"]
        /\ deps_previews' \subseteq deps_previews
    BY <1>0, <1>1, <1>11 DEF Dependencies!Replace, Dependencies!Lock
  <2>2. SameProposals /\ deps_proposals'[id].status = "applied"
    <3> DEFINE marked == [deps_proposals[id] EXCEPT !.status = "applied"]
    <3>1. /\ marked \in ProposalRows /\ marked.status = "applied"
          /\ marked.before = deps_proposals[id].before /\ marked.after = deps_proposals[id].after
      BY <1>2 DEF ProposalRows
    <3>2. deps_proposals' = [deps_proposals EXCEPT ![id] = marked]
      BY <2>1
    <3> HIDE DEF marked
    <3> QED BY <1>2, <1>5, <3>1, <3>2 DEF SameProposals
  <2>3. ASSUME NEW other \in DOMAIN deps_proposals, NEW f \in {1, 2},
               deps_disk'[f] = MakesOf(other)
        PROVE  Settled(other)'
    <3>1. Settled(other) \/ other = id
      <4>1. CASE f = 1
        BY <1>6, <1>9, <1>11, <2>3, <4>1
      <4>2. CASE f = 2
        <5>1. deps_proposals[id].after[2] = MakesOf(other)
          BY <1>6, <1>11, <2>3, <4>2
        <5> QED BY <1>7, <1>9, <5>1, ContentAssumption
      <4> QED BY <4>1, <4>2
    <3>2. Settled(id)'
      BY <2>2 DEF Settled
    <3> QED BY <1>3, <2>2, <3>1, <3>2, SettledStays
  <2> QED BY <1>1, <1>3, <1>6, <1>8, <1>10, <2>1, <2>2, <2>3, DoneKeeps
<1>12. CASE file = 1
  <2> DEFINE job == [deps_queue[1] EXCEPT !.at = "check", !.file = 2, !.applied = {1}]
  <2>1. /\ deps_queue' = [deps_queue EXCEPT ![1] = job]
        /\ UNCHANGED <<deps_proposals, deps_previews>>
    <3>1. /\ deps_queue' = [deps_queue EXCEPT ![1].at = "check", ![1].file = 2, ![1].applied = {1}]
          /\ UNCHANGED <<deps_proposals, deps_previews>>
      BY <1>0, <1>1, <1>12 DEF Dependencies!Replace, Dependencies!Lock, Dependencies!Package
    <3>2. deps_queue \in Seq(JobRows) /\ 1 \in DOMAIN deps_queue
      BY <1>1, <1>4 DEF DependencyTypes
    <3> QED BY <3>1, <3>2
  <2>2. /\ job \in JobRows /\ job.kind = "apply" /\ job.id = id /\ job.at = "check"
        /\ job.file = 2 /\ job.applied = {1} /\ job.bytes = deps_queue[1].bytes
    BY <1>0, <1>2 DEF JobRows, Applying
  <2> HIDE DEF job
  <2>3. SameProposals
    BY <1>4, <2>1, SameRows
  <2>4. /\ \A f \in {1, 2} : Written(job.bytes[f])
        /\ \A other \in DOMAIN deps_proposals, f \in {1, 2} :
             job.bytes[f] = MakesOf(other) => Settled(other)
    <3>1. JobOK(1) /\ 1 \in DOMAIN deps_queue
      BY <1>1, <1>4, HeadIsJob
    <3> QED BY <2>2, <3>1 DEF JobOK, DependencyInv, FoundWhenSettled
  <2>5. \A other \in DOMAIN deps_proposals :
          /\ deps_disk'[1] = MakesOf(other) => Settled(other) \/ job.id = other
          /\ deps_disk'[2] = MakesOf(other) => Settled(other)
    BY <1>6, <1>7, <1>9, <1>12, <2>2
  <2>6. job.at \in Applying /\ job.at \notin {"asked", "replace", "putBack"}
    BY <2>2 DEF Applying
  <2> QED BY <1>0, <1>1, <1>2, <1>3, <1>6, <1>8, <1>10, <2>1, <2>2, <2>3, <2>4, <2>5, <2>6, GoingOnKeeps
<1> QED BY <1>5, <1>11, <1>12

\* The application has failed: what is in package.json goes back, or is not the proposal's, or
\* the proposal is cut in two.
LEMMA RollingBackKeepsFiles ==
  ASSUME DependencyInv, Dependencies!RollBack
  PROVE  DependencyInv'
<1> DEFINE id == deps_queue[1].id
<1>1. /\ deps_queue # <<>> /\ Dependencies!Job.at = "rollBack" /\ Dependencies!Job = deps_queue[1]
      /\ UNCHANGED <<deps_disk, deps_turn, deps_previews, deps_tool, deps_proposals, deps_fresh,
                     deps_text, deps_hit, deps_sent>>
  BY DEF Dependencies!RollBack, Dependencies!Doing, Dependencies!Job
<1>2. /\ deps_queue[1].kind = "apply" /\ id \in DOMAIN deps_proposals
      /\ Dependencies!Proposal = deps_proposals[id]
  BY <1>1, AppliesProposal DEF Applying
<1>3. DependencyTypes /\ SameProposals
  BY <1>1, SameRows DEF DependencyInv
<1> DEFINE mine == 1 \in deps_queue[1].applied /\ deps_disk[1] = MakesOf(id)
<1>4. mine <=> Dependencies!GoesBack /\ deps_disk[1] = Dependencies!Proposal.after[1]
  BY <1>1, <1>2 DEF Dependencies!GoesBack, Dependencies!Package, MakesOf
<1> HIDE DEF mine
<1>5. CASE mine /\ UNCHANGED deps_torn
           /\ deps_queue' = [deps_queue EXCEPT ![1].at = "putBack", ![1].file = 1]
  <2> DEFINE job == [deps_queue[1] EXCEPT !.at = "putBack", !.file = 1]
  <2>1. deps_queue \in Seq(JobRows) /\ 1 \in DOMAIN deps_queue /\ deps_queue[1] \in JobRows
    BY <1>1, <1>3 DEF DependencyTypes
  <2>2. deps_queue' = [deps_queue EXCEPT ![1] = job]
    BY <1>5, <2>1
  <2>3. /\ job \in JobRows /\ job.kind = deps_queue[1].kind /\ job.id = deps_queue[1].id
        /\ job.at = "putBack" /\ job.file = 1 /\ job.at \in Applying
        /\ job.applied = deps_queue[1].applied /\ job.bytes = deps_queue[1].bytes
    BY <2>1 DEF JobRows, Applying
  <2> HIDE DEF job
  <2>4. deps_disk[1] = deps_proposals[job.id].after[1]
    BY <1>5, <2>3 DEF mine, MakesOf
  <2> QED BY <1>1, <1>2, <1>3, <1>5, <2>2, <2>3, <2>4, GoingOnRestsFiles
<1>6. CASE mine /\ Dependencies!Done /\ deps_torn' = deps_torn \cup {id}
  <2>1. \A other \in DOMAIN deps_proposals : HalfApplied(other) => Settled(other)'
    BY <1>6 DEF HalfApplied, Settled
  <2> QED BY <1>1, <1>3, <1>6, <2>1, DoneRestsFiles
<1>7. CASE ~mine /\ Dependencies!Done /\ UNCHANGED deps_torn
  <2>1. \A other \in DOMAIN deps_proposals :
          ~(HalfApplied(other) /\ deps_disk[1] = MakesOf(other))
    BY <1>7 DEF HalfApplied, mine
  <2> QED BY <1>1, <1>3, <1>7, <2>1, DoneRestsFiles
<1> QED BY <1>1, <1>4, <1>5, <1>6, <1>7 DEF Dependencies!RollBack, Dependencies!Package

\* package.json is what it was before.
LEMMA PuttingBackKeepsFiles ==
  ASSUME DependencyInv, Dependencies!PutBack
  PROVE  DependencyInv'
<1> DEFINE id == deps_queue[1].id
<1>1. /\ deps_queue # <<>> /\ Dependencies!Job.at = "putBack" /\ Dependencies!Job = deps_queue[1]
      /\ UNCHANGED <<deps_turn, deps_previews, deps_tool, deps_proposals, deps_fresh,
                     deps_text, deps_hit, deps_sent, deps_torn>>
      /\ Dependencies!Done
  BY DEF Dependencies!PutBack, Dependencies!Doing, Dependencies!Job, Dependencies!history
<1>2. /\ deps_queue[1].kind = "apply" /\ id \in DOMAIN deps_proposals
      /\ Dependencies!Proposal = deps_proposals[id] /\ deps_proposals[id] \in ProposalRows
      /\ MakesNew(id)
  BY <1>1, AppliesProposal DEF Applying
<1>3. DependencyTypes /\ SameProposals
  BY <1>1, SameRows DEF DependencyInv
<1>4. /\ deps_disk \in Contained /\ deps_fresh \in Nat
      /\ deps_proposals[id].before \in Contained
      /\ deps_disk' = [deps_disk EXCEPT ![1] = deps_proposals[id].before[1]]
  BY <1>2, <1>3 DEF DependencyTypes, ProposalRows, Dependencies!PutBack, Dependencies!Package
<1>5. /\ deps_disk' \in Contained /\ deps_disk'[1] = deps_proposals[id].before[1]
      /\ deps_disk'[2] = deps_disk[2]
  BY <1>4 DEF Contained
<1>6. \A f \in {1, 2} : Written(deps_disk[f])'
  <2>1. /\ MakesOf(id) \in 2..deps_fresh
        /\ deps_proposals[id].before[1] \in Nat => deps_proposals[id].before[1] < MakesOf(id)
    BY <1>2 DEF MakesNew
  <2>2. Written(deps_disk[2])
    BY DEF DependencyInv, ContentsAreNew
  <2>3. Written(deps_disk[1])'
    <3> DEFINE b == deps_proposals[id].before[1]
    <3>1. b \in Nat => b <= deps_fresh
      <4> HIDE DEF b
      <4>1. MakesOf(id) \in 2..deps_fresh /\ (b \in Nat => b < MakesOf(id))
        BY <2>1 DEF b
      <4> QED BY <1>4, <4>1
    <3>2. deps_disk'[1] = b /\ deps_fresh' = deps_fresh
      BY <1>1, <1>5
    <3> QED BY <3>1, <3>2 DEF Written
  <2>4. Written(deps_disk[2])'
    BY <1>1, <1>5, <2>2 DEF Written
  <2> QED BY <2>3, <2>4
<1>7. \A other \in DOMAIN deps_proposals, f \in {1, 2} :
        deps_disk'[f] = MakesOf(other) => Settled(other)'
  <2>1. \A other \in DOMAIN deps_proposals, f \in {1, 2} :
          deps_disk'[f] = MakesOf(other) => Settled(other)
    BY <1>2, <1>5 DEF DependencyInv, FoundWhenSettled
  <2> QED BY <1>1, <2>1 DEF Settled
<1>8. EditsHeld'
  <2> SUFFICES ASSUME NEW f \in {1, 2}, f \notin deps_hit
               PROVE  \/ deps_disk'[f] = deps_text[f]
                      \/ \E s \in deps_sent : deps_proposals[s].before[f] = deps_text[f]
    BY <1>1 DEF EditsHeld, Survives
  <2>1. \/ deps_disk[f] = deps_text[f]
        \/ \E s \in deps_sent : deps_proposals[s].before[f] = deps_text[f]
    BY DEF DependencyInv, EditsHeld, Survives
  <2>2. CASE f = 1
    <3>1. deps_disk[1] = MakesOf(id)
      BY <1>1, <2>2 DEF DependencyInv, OverwritesExpected, MakesOf
    <3>2. deps_text[1] # MakesOf(id)
      BY <1>2 DEF MakesNew
    <3> QED BY <2>1, <2>2, <3>1, <3>2
  <2>3. CASE f = 2
    BY <1>5, <2>1, <2>3
  <2> QED BY <2>2, <2>3
<1> QED BY <1>1, <1>3, <1>5, <1>6, <1>7, <1>8, DoneKeeps

\* The main process ends, and what it was doing with it.
LEMMA CrashKeepsFiles ==
  ASSUME DependencyInv, Dependencies!Crash
  PROVE  DependencyInv'
<1> USE DEF DependencyInv
<1>1. /\ UNCHANGED <<deps_disk, deps_fresh, deps_text, deps_hit, deps_sent>>
      /\ deps_queue' = <<>> /\ deps_previews' = {} /\ deps_tool' = None
      /\ deps_turn' \in Nat
      /\ deps_proposals' = Dependencies!Pruned(Dependencies!Live)
  BY DEF Dependencies!Crash, DependencyTypes
<1>2. /\ deps_torn \subseteq deps_torn'
      /\ \A id \in DOMAIN deps_proposals : HalfApplied(id) => id \in deps_torn'
  BY DEF Dependencies!Crash, Dependencies!Job, HalfApplied
<1>3. SameProposals
  BY <1>1, PruningKeepsProposals
<1>4. \A id \in DOMAIN deps_proposals : /\ MakesOf(id)' = MakesOf(id)
                                        /\ Settled(id) => Settled(id)'
                                        /\ HalfApplied(id) => Settled(id)'
  BY <1>2, <1>3, SettledStays DEF SameProposals, MakesOf, Settled
<1>5. DependencyTypes'
  BY <1>1, <1>3 DEF DependencyTypes, SameProposals
<1>6. ContentsAreNew' /\ EditsHeld'
  BY <1>1, <1>3, RestingFiles, ContentsStayNew
<1>7. JobsOK' /\ OverwritesExpected'
  BY <1>1 DEF JobsOK, OverwritesExpected
<1>8. FoundWhenSettled'
  BY <1>1, <1>3, <1>4 DEF FoundWhenSettled, SameProposals
<1> QED BY <1>5, <1>6, <1>7, <1>8

LEMMA StepFiles == DependencyInv /\ [Dependencies!Next]_deps_vars => DependencyInv'
<1> SUFFICES ASSUME DependencyInv, [Dependencies!Next]_deps_vars PROVE DependencyInv'
  OBVIOUS
<1>1. CASE UNCHANGED deps_vars
  <2> USE <1>1 DEF deps_vars
  <2>1. DependencyTypes'
    BY DEF DependencyInv, DependencyTypes
  <2>2. ContentsAreNew'
    BY DEF DependencyInv, ContentsAreNew, MakesNew, MakesOf, Written
  <2>3. JobsOK'
    BY DEF DependencyInv, JobsOK, JobOK, Written
  <2>4. FoundWhenSettled'
    BY DEF DependencyInv, FoundWhenSettled, Settled, HalfApplied, MakesOf
  <2>5. OverwritesExpected' /\ EditsHeld'
    BY DEF DependencyInv, OverwritesExpected, EditsHeld, Survives
  <2> QED BY <2>1, <2>2, <2>3, <2>4, <2>5 DEF DependencyInv
<1>2. CASE Dependencies!Next
  BY <1>2, EditKeepsFiles, ToolsKeepFiles, DecisionKeepsFiles, BeginningKeepsFiles, ReadKeepsFiles,
     CheckKeepsFiles, ProposingKeepsFiles, ReplacingKeepsFiles, RollingBackKeepsFiles,
     PuttingBackKeepsFiles, CrashKeepsFiles DEF Dependencies!Next
<1> QED BY <1>1, <1>2

\* Where nothing is under way and the proposal was not cut in two, what is in a file is not what
\* it made.
LEMMA ProposalsAreWhole ==
  ASSUME DependencyInv
  PROVE  Dependencies!AppliedWhole /\ Dependencies!EditsSurvive
<1> USE DEF DependencyInv, Dependencies!Files, Dependencies!Package, Dependencies!Lock
<1>1. ASSUME NEW id \in DOMAIN deps_proposals \ deps_torn,
             deps_proposals[id].status # "applied",
             ~(deps_queue # <<>> /\ Dependencies!Job.kind = "apply" /\ Dependencies!Job.id = id),
             NEW f \in {1, 2},
             deps_proposals[id].after[f] \notin {deps_proposals[id].before[f], None}
      PROVE  deps_disk[f] # deps_proposals[id].after[f]
  <2>1. ~Settled(id) /\ ~HalfApplied(id)
    BY <1>1 DEF Settled, HalfApplied, Dependencies!Job
  <2>2. deps_proposals[id].after[f] = MakesOf(id)
    BY <1>1 DEF ContentsAreNew, MakesNew, MakesOf
  <2> QED BY <2>1, <2>2 DEF FoundWhenSettled
<1>2. Dependencies!AppliedWhole
  BY <1>1 DEF Dependencies!AppliedWhole
<1>3. Dependencies!EditsSurvive
  BY DEF Dependencies!EditsSurvive, EditsHeld, Survives
<1> QED BY <1>2, <1>3

\* For any number of proposals, edits and turns: a proposal is applied in both files or in
\* neither, and an edit of the user is still there or was what a proposal that they approved was
\* made from; but for what a crash, or a rollback that failed, cut in two, and an edit between a
\* check and the write behind it.
THEOREM DependenciesApplyWhole == MCSpec => []AppliedWhole
<1> DEFINE Inv == which = "dependencies" => DependencyInv
<1>1. MCInit => Inv
  BY InitFiles DEF MCInit, DependenciesBegins
<1>2. Inv /\ [MCNext]_MCVars => Inv'
  <2> SUFFICES ASSUME Inv, [MCNext]_MCVars PROVE Inv'
    OBVIOUS
  <2>1. UNCHANGED which
    BY DEF MCNext, MCVars
  <2>2. SUFFICES ASSUME which = "dependencies" PROVE DependencyInv'
    BY <2>1
  <2>3. [Dependencies!Next]_deps_vars
    BY <2>2 DEF MCNext, MCVars
  <2> QED BY <2>2, <2>3, StepFiles
<1>3. Inv => AppliedWhole
  BY ProposalsAreWhole DEF AppliedWhole
<1> QED
  BY <1>1, <1>2, <1>3, PTL DEF MCSpec

-----------------------------------------------------------------------------
(* Git.  A manifest that was reviewed stays what it is, and one that was       *)
(* checked still fits the repository, unless a change is known to have raced   *)
(* it: whoever changes the repository races every other operation.            *)
Lines == Seq(Nat) \ {<<>>}
Kinds == {"branch", "switch", "stage", "hunk", "commit", "push"}
Reviews ==
  [kind : Kinds, head : Lines, index : Nat, ref : Branches, file : Nat \cup {None},
   branch : Branches \cup {None}, oid : Lines]
Operations == [manifest : Reviews, checked : BOOLEAN, raced : BOOLEAN]

RepoOK ==
  /\ git_file \in Nat /\ git_index \in Nat /\ git_fresh \in Nat
  /\ git_ref \in Branches
  /\ git_tips \in [Branches -> Lines \cup {None}] /\ git_tips[git_ref] \in Lines

\* What a manifest of a kind says besides.
Sound(m) ==
  /\ m \in Reviews
  /\ m.kind \in {"stage", "hunk"} => m.file \in Nat
  /\ m.kind \in {"branch", "push"} => m.oid = m.head
  /\ m.kind \in {"branch", "switch"} => m.branch \in Branches
  /\ m.kind = "switch" => git_tips[m.branch] \in Lines

\* Only the first operation of a broker is ever checked.
QueueOK(b) ==
  /\ git_queue[b] \in Seq(Operations)
  /\ \A i \in 1..Len(git_queue[b]) : Sound(git_queue[b][i].manifest)
  /\ \A i \in 2..Len(git_queue[b]) : ~git_queue[b][i].checked
  /\ git_queue[b] # <<>> /\ git_queue[b][1].checked /\ ~git_queue[b][1].raced =>
       Git!Matches(git_queue[b][1].manifest)

GitInv ==
  /\ RepoOK
  /\ DOMAIN git_previews = GitChats
  /\ \A c \in GitChats : git_previews[c] # None => Sound(git_previews[c])
  /\ DOMAIN git_queue = Git!Brokers
  /\ \A b \in Git!Brokers : QueueOK(b)

\* No branch goes.
TipsStay == \A b \in Branches : git_tips[b] \in Lines => git_tips'[b] \in Lines

LEMMA InitGit == Git!Init => GitInv
<1> SUFFICES ASSUME Git!Init PROVE GitInv
  OBVIOUS
<1>1. <<0>> \in Lines
  BY DEF Lines
<1>2. RepoOK
  BY <1>1, GitAssumption DEF Git!Init, RepoOK
<1>3. ASSUME NEW b \in Git!Brokers PROVE QueueOK(b)
  <2>1. git_queue[b] = <<>> /\ Len(git_queue[b]) = 0
    BY <1>3 DEF Git!Init
  <2> QED BY <2>1 DEF QueueOK
<1> QED BY <1>2, <1>3 DEF Git!Init, GitInv

\* The first operation of a queue is replaced.
LEMMA FirstReplaced ==
  ASSUME NEW q \in Seq(Operations), q # <<>>, NEW e \in Operations,
         NEW t, t = <<e>> \o Tail(q)
  PROVE  /\ t \in Seq(Operations) /\ t # <<>> /\ Len(t) = Len(q) /\ t[1] = e
         /\ \A i \in 2..Len(q) : t[i] = q[i]
<1>1. /\ Tail(q) \in Seq(Operations) /\ Len(Tail(q)) = Len(q) - 1
      /\ \A i \in 1..Len(Tail(q)) : Tail(q)[i] = q[i + 1]
  BY HeadTailProperties
<1>2. <<e>> \in Seq(Operations) /\ Len(<<e>>) = 1 /\ <<e>>[1] = e
  OBVIOUS
<1>3. /\ t \in Seq(Operations) /\ Len(t) = 1 + Len(Tail(q))
      /\ \A i \in 1..(1 + Len(Tail(q))) : t[i] = IF i <= 1 THEN e ELSE Tail(q)[i - 1]
  BY <1>1, <1>2, ConcatProperties
<1>4. Len(q) \in Nat \ {0}
  BY EmptySeq
<1>5. Len(t) = Len(q)
  BY <1>1, <1>3, <1>4
<1>6. t[1] = e
  BY <1>3, <1>4, <1>5
<1>7. ASSUME NEW i \in 2..Len(q) PROVE t[i] = q[i]
  <2>1. /\ i \in 1..(1 + Len(Tail(q))) /\ ~(i <= 1) /\ i - 1 \in 1..Len(Tail(q))
        /\ (i - 1) + 1 = i
    BY <1>1, <1>4, <1>7
  <2>2. t[i] = Tail(q)[i - 1]
    BY <1>3, <2>1
  <2> QED BY <1>1, <2>1, <2>2
<1> QED BY <1>3, <1>4, <1>5, <1>6, <1>7

\* A manifest stays sound.
LEMMA SoundStays == ASSUME TipsStay PROVE \A m : Sound(m) => Sound(m)'
  BY DEF Sound, TipsStay

\* A queue that loses its first operation is none the worse, whatever happens to the
\* repository: nobody has checked the next one.
LEMMA FirstLeaves ==
  ASSUME GitInv, TipsStay, NEW b \in Git!Brokers, git_queue[b] # <<>>,
         git_queue'[b] = Tail(git_queue[b])
  PROVE  QueueOK(b)'
<1>1. PICK q, t : q = git_queue[b] /\ t = git_queue'[b]
  OBVIOUS
<1>2. /\ q \in Seq(Operations) /\ Len(q) \in Nat \ {0}
      /\ \A i \in 1..Len(q) : Sound(q[i].manifest)
      /\ \A i \in 2..Len(q) : ~q[i].checked
  BY <1>1, EmptySeq DEF GitInv, QueueOK
<1>3. /\ t \in Seq(Operations) /\ Len(t) = Len(q) - 1
      /\ \A i \in 1..Len(t) : t[i] = q[i + 1]
  BY <1>1, <1>2, HeadTailProperties
<1>4. ASSUME NEW i \in 1..Len(t)
      PROVE  t[i] = q[i + 1] /\ i + 1 \in 2..Len(q) /\ i + 1 \in 1..Len(q)
  BY <1>2, <1>3, <1>4
<1>5. \A i \in 1..Len(t) : Sound(t[i].manifest)
  BY <1>2, <1>4
<1>6. \A i \in 1..Len(t) : ~t[i].checked
  BY <1>2, <1>4
<1>7. t # <<>> => Len(t) \in Nat \ {0}
  BY <1>3, EmptySeq
<1>8. t # <<>> => ~t[1].checked
  BY <1>6, <1>7
<1>9. \A i \in 2..Len(t) : ~t[i].checked
  BY <1>3, <1>6
<1>10. \A i \in 1..Len(t) : Sound(t[i].manifest)'
  BY <1>5, SoundStays
<1> QED BY <1>1, <1>3, <1>8, <1>9, <1>10 DEF QueueOK

\* A queue that is raced holds nothing that was checked and is not known to be raced.
LEMMA RacedQueue ==
  ASSUME GitInv, TipsStay, NEW b \in Git!Brokers, git_queue'[b] = Git!Raced(git_queue[b])
  PROVE  /\ QueueOK(b)'
         /\ git_queue[b] # <<>> /\ Head(git_queue[b]).checked => git_queue'[b] # Tail(git_queue[b])
<1>1. PICK q, t : q = git_queue[b] /\ t = git_queue'[b]
  OBVIOUS
<1>2. /\ q \in Seq(Operations)
      /\ \A i \in 1..Len(q) : Sound(q[i].manifest)
      /\ \A i \in 2..Len(q) : ~q[i].checked
  BY <1>1 DEF GitInv, QueueOK
<1>3. q # <<>> => Len(q) \in Nat \ {0} /\ Head(q) = q[1]
  BY <1>2, EmptySeq
<1>4. \A i \in 1..Len(q) : Sound(q[i].manifest)'
  BY <1>2, SoundStays
<1>5. CASE ~(q # <<>> /\ Head(q).checked)
  <2>1. t = q
    BY <1>1, <1>5 DEF Git!Raced
  <2>2. q # <<>> => ~q[1].checked
    BY <1>3, <1>5
  <2> QED BY <1>1, <1>2, <1>4, <1>5, <2>1, <2>2 DEF QueueOK
<1>6. CASE q # <<>> /\ Head(q).checked
  <2>1. q[1] \in Operations
    BY <1>2, <1>3, <1>6, ElementOfSeq
  <2>2. PICK e : e = [Head(q) EXCEPT !.raced = TRUE]
    OBVIOUS
  <2>3. e \in Operations /\ e.raced /\ e.manifest = q[1].manifest
    BY <1>3, <1>6, <2>1, <2>2 DEF Operations
  <2>4. t = <<e>> \o Tail(q)
    BY <1>1, <1>6, <2>2 DEF Git!Raced
  <2>5. /\ t \in Seq(Operations) /\ t # <<>> /\ Len(t) = Len(q) /\ t[1] = e
        /\ \A i \in 2..Len(q) : t[i] = q[i]
    BY <1>2, <1>6, <2>3, <2>4, FirstReplaced
  <2>6. \A i \in 1..Len(t) : Sound(t[i].manifest)'
    BY <1>3, <1>4, <1>6, <2>3, <2>5
  <2>7. \A i \in 2..Len(t) : ~t[i].checked
    BY <1>2, <2>5
  <2>8. QueueOK(b)'
    BY <1>1, <2>3, <2>5, <2>6, <2>7 DEF QueueOK
  <2>9. Len(Tail(q)) = Len(q) - 1
    BY <1>2, <1>6, HeadTailProperties
  <2>10. t # Tail(q)
    BY <1>3, <1>6, <2>5, <2>9
  <2> QED BY <1>1, <2>8, <2>10
<1> QED BY <1>1, <1>5, <1>6

\* A queue whose repository is left alone.
LEMMA SameQueue ==
  ASSUME GitInv, UNCHANGED <<git_file, git_index, git_ref, git_tips>>,
         NEW b \in Git!Brokers, git_queue'[b] = git_queue[b]
  PROVE  QueueOK(b)'
<1>1. QueueOK(b)
  BY DEF GitInv
<1>2. \A m : Sound(m) <=> Sound(m)'
  BY DEF Sound
<1>3. \A m : Git!Matches(m) <=> Git!Matches(m)'
  BY DEF Git!Matches, Git!Tip, Git!Clean
<1> QED BY <1>1, <1>2, <1>3 DEF QueueOK

\* What is reviewed is what the repository is.
LEMMA ManifestsSound == ASSUME RepoOK PROVE \A m \in Git!Manifests : Sound(m)
<1>1. git_tips[git_ref] \in Lines /\ git_file \in Nat /\ git_index \in Nat /\ git_ref \in Branches
  BY DEF RepoOK
<1>2. ASSUME NEW b \in Branches PROVE Sound(Git!Manifest("branch", b))
  BY <1>1, <1>2 DEF Sound, Reviews, Kinds, Git!Manifest, Git!Tip
<1>3. ASSUME NEW b \in Branches, git_tips[b] # None PROVE Sound(Git!Manifest("switch", b))
  <2>1. git_tips[b] \in Lines
    BY <1>3 DEF RepoOK
  <2> QED BY <1>1, <1>3, <2>1 DEF Sound, Reviews, Kinds, Git!Manifest, Git!Tip
<1>4. ASSUME NEW kind \in {"stage", "push", "hunk", "commit"} PROVE Sound(Git!Manifest(kind, None))
  BY <1>1, <1>4 DEF Sound, Reviews, Kinds, Git!Manifest, Git!Tip
<1> QED BY <1>2, <1>3, <1>4 DEF Git!Manifests

\* An operation that joins a queue is not checked.
LEMMA Joins ==
  ASSUME GitInv, UNCHANGED Git!repo, NEW b \in Git!Brokers, NEW m, Sound(m),
         git_queue'[b] = Append(git_queue[b], Git!Operation(m))
  PROVE  QueueOK(b)'
<1>1. PICK q, t, e : q = git_queue[b] /\ t = git_queue'[b] /\ e = Git!Operation(m)
  OBVIOUS
<1>2. /\ q \in Seq(Operations) /\ Len(q) \in Nat
      /\ \A i \in 1..Len(q) : Sound(q[i].manifest)
      /\ \A i \in 2..Len(q) : ~q[i].checked
      /\ q # <<>> => Len(q) \in Nat \ {0}
  BY <1>1, EmptySeq DEF GitInv, QueueOK
<1>3. e \in Operations /\ ~e.checked /\ e.manifest = m
  BY <1>1 DEF Sound, Operations, Git!Operation
<1>4. /\ t \in Seq(Operations) /\ t # <<>> /\ Len(t) = Len(q) + 1
      /\ \A i \in 1..Len(q) : t[i] = q[i]
      /\ t[Len(q) + 1] = e
  BY <1>1, <1>2, <1>3, AppendProperties
<1>5. ASSUME NEW i \in 1..Len(t) PROVE i \in 1..Len(q) \/ i = Len(q) + 1
  BY <1>2, <1>4
<1>6. \A i \in 1..Len(t) : Sound(t[i].manifest)
  BY <1>2, <1>3, <1>4, <1>5
<1>7. \A i \in 2..Len(t) : ~t[i].checked
  <2> SUFFICES ASSUME NEW i \in 2..Len(t) PROVE ~t[i].checked
    OBVIOUS
  <2>1. (i \in 2..Len(q) /\ i \in 1..Len(q)) \/ i = Len(q) + 1
    BY <1>2, <1>4
  <2> QED BY <1>2, <1>3, <1>4, <2>1
<1>8. t[1].checked => q # <<>> /\ t[1] = q[1]
  <2>1. CASE q = <<>>
    BY <1>3, <1>4, <2>1, EmptySeq
  <2>2. CASE q # <<>>
    BY <1>2, <1>4, <2>2
  <2> QED BY <2>1, <2>2
<1>9. t[1].checked /\ ~t[1].raced => Git!Matches(t[1].manifest)
  BY <1>1, <1>8 DEF GitInv, QueueOK
<1>10. t[1].checked /\ ~t[1].raced => Git!Matches(t[1].manifest)'
  BY <1>9 DEF Git!Matches, Git!Tip, Git!Clean, Git!repo
<1>11. \A i \in 1..Len(t) : Sound(t[i].manifest)'
  BY <1>6 DEF Sound, Git!repo
<1> QED BY <1>1, <1>4, <1>7, <1>10, <1>11 DEF QueueOK

\* A check that succeeds.
LEMMA CheckSucceeds ==
  ASSUME GitInv, UNCHANGED Git!repo, NEW b \in Git!Brokers, git_queue[b] # <<>>,
         Git!Matches(Head(git_queue[b]).manifest),
         git_queue'[b] = <<[Head(git_queue[b]) EXCEPT !.checked = TRUE]>> \o Tail(git_queue[b])
  PROVE  QueueOK(b)'
<1>1. PICK q, t, e : /\ q = git_queue[b] /\ t = git_queue'[b]
                     /\ e = [Head(q) EXCEPT !.checked = TRUE]
  OBVIOUS
<1>2. /\ q \in Seq(Operations) /\ Len(q) \in Nat \ {0} /\ Head(q) = q[1]
      /\ \A i \in 1..Len(q) : Sound(q[i].manifest)
      /\ \A i \in 2..Len(q) : ~q[i].checked
  BY <1>1, EmptySeq DEF GitInv, QueueOK
<1>3. q[1] \in Operations
  BY <1>2, ElementOfSeq
<1>4. e \in Operations /\ e.manifest = q[1].manifest
  BY <1>1, <1>2, <1>3 DEF Operations
<1>5. /\ t \in Seq(Operations) /\ Len(t) = Len(q) /\ t[1] = e
      /\ \A i \in 2..Len(q) : t[i] = q[i]
  BY <1>1, <1>2, <1>4, FirstReplaced
<1>6. \A i \in 1..Len(t) : Sound(t[i].manifest)
  BY <1>2, <1>4, <1>5
<1>7. \A i \in 1..Len(t) : Sound(t[i].manifest)'
  BY <1>6 DEF Sound, Git!repo
<1>8. Git!Matches(t[1].manifest)
  BY <1>1, <1>2, <1>4, <1>5
<1>9. Git!Matches(t[1].manifest)'
  BY <1>8 DEF Git!Matches, Git!Tip, Git!Clean, Git!repo
<1> QED BY <1>1, <1>2, <1>5, <1>7, <1>9 DEF QueueOK

\* What git does leaves a repository behind, and every branch in it.
LEMMA GitKeepsRepo ==
  ASSUME RepoOK, NEW m, Sound(m), Git!Git(m)
  PROVE  /\ git_file' \in Nat /\ git_index' \in Nat /\ git_ref' \in Branches
         /\ git_tips' \in [Branches -> Lines \cup {None}] /\ git_tips'[git_ref'] \in Lines
         /\ TipsStay
<1>1. m \in Reviews /\ m.head \in Lines /\ m.oid \in Lines
  BY DEF Sound, Reviews
<1>2. \A t \in Lines : t[Len(t)] \in Nat
  <2> SUFFICES ASSUME NEW t \in Lines PROVE t[Len(t)] \in Nat
    OBVIOUS
  <2>1. t \in Seq(Nat) /\ Len(t) \in Nat \ {0}
    BY EmptySeq DEF Lines
  <2>2. Len(t) \in 1..Len(t)
    BY <2>1
  <2> QED BY <2>1, <2>2, ElementOfSeq
<1>3. CASE Git!Creates(m)
  BY <1>1, <1>3 DEF Git!Creates, RepoOK, TipsStay, Sound
<1>4. CASE Git!Switches(m)
  <2>1. git_tips[m.branch] \in Lines /\ m.branch \in Branches
    BY <1>4 DEF Sound, Git!Switches
  <2>2. Git!Last(git_tips[m.branch]) \in Nat
    BY <1>2, <2>1 DEF Git!Last
  <2> QED BY <1>4, <2>1, <2>2 DEF Git!Switches, RepoOK, TipsStay
<1>5. CASE Git!Stages(m)
  BY <1>5 DEF Git!Stages, RepoOK, TipsStay
<1>6. CASE Git!StagesHunk(m)
  BY <1>6 DEF Git!StagesHunk, RepoOK, TipsStay, Sound
<1>7. CASE Git!Commits(m)
  <2>1. Append(git_tips[git_ref], git_index) \in Lines
    BY AppendProperties DEF RepoOK, Lines
  <2> QED BY <1>7, <2>1 DEF Git!Commits, RepoOK, TipsStay, Git!Tip
<1>8. CASE Git!Pushes(m)
  BY <1>8 DEF Git!Pushes, RepoOK, TipsStay
<1> QED BY <1>3, <1>4, <1>5, <1>6, <1>7, <1>8 DEF Git!Git

\* The manifest of the first operation, for what follows.
LEMMA FirstIsSound ==
  ASSUME GitInv, NEW b \in Git!Brokers, git_queue[b] # <<>>
  PROVE  /\ Sound(Head(git_queue[b]).manifest)
         /\ Head(git_queue[b]).checked /\ ~Head(git_queue[b]).raced =>
              Git!Matches(Head(git_queue[b]).manifest)
<1>1. PICK q : q = git_queue[b]
  OBVIOUS
<1>2. q \in Seq(Operations) /\ Len(q) \in Nat \ {0} /\ Head(q) = q[1]
  BY <1>1, EmptySeq DEF GitInv, QueueOK
<1>3. 1 \in 1..Len(q)
  BY <1>2
<1> QED BY <1>1, <1>2, <1>3 DEF GitInv, QueueOK

\* Nor does anybody else remove a branch.
LEMMA OthersKeepTips ==
  ASSUME RepoOK, Git!Edit \/ Git!OthersStage \/ Git!OthersCommit
  PROVE  RepoOK' /\ TipsStay
<1>1. CASE Git!Edit \/ Git!OthersStage
  BY <1>1 DEF Git!Edit, Git!OthersStage, RepoOK, TipsStay
<1>2. CASE Git!OthersCommit
  <2>1. Append(git_tips[git_ref], git_index) \in Lines
    BY AppendProperties DEF RepoOK, Lines
  <2> QED BY <1>2, <2>1 DEF Git!OthersCommit, RepoOK, TipsStay, Git!Tip
<1> QED BY <1>1, <1>2

LEMMA StepGit == ASSUME GitInv, [Git!Next]_git_vars PROVE GitInv'
<1> USE DEF Git!repo
<1>1. CASE UNCHANGED git_vars
  <2>1. RepoOK' /\ \A m : Sound(m) => Sound(m)'
    BY <1>1 DEF git_vars, GitInv, RepoOK, Sound
  <2>2. ASSUME NEW b \in Git!Brokers PROVE QueueOK(b)'
    BY <1>1, <2>2, SameQueue DEF git_vars
  <2> QED BY <1>1, <2>1, <2>2 DEF git_vars, GitInv
<1>2. CASE Git!Edit \/ Git!OthersStage \/ Git!OthersCommit
  <2>1. RepoOK' /\ TipsStay
    BY <1>2, OthersKeepTips DEF GitInv
  <2>2. /\ git_queue' = [b \in Git!Brokers |-> Git!Raced(git_queue[b])]
        /\ UNCHANGED git_previews
    BY <1>2 DEF Git!Edit, Git!OthersStage, Git!OthersCommit
  <2>3. \A b \in Git!Brokers : QueueOK(b)'
    BY <2>1, <2>2, RacedQueue
  <2> QED BY <2>1, <2>2, <2>3, SoundStays DEF GitInv
<1>3. CASE \/ Git!TurnBegins \/ Git!TurnEnds
           \/ \E c \in GitChats : Git!Preview(c) \/ Git!Deny(c)
  <2>1. UNCHANGED <<Git!repo, git_fresh, git_queue>>
    BY <1>3 DEF Git!TurnBegins, Git!TurnEnds, Git!Preview, Git!Deny
  <2>2. RepoOK' /\ \A m : Sound(m) => Sound(m)'
    BY <2>1 DEF GitInv, RepoOK, Sound
  <2>3. \A b \in Git!Brokers : QueueOK(b)'
    BY <2>1, SameQueue
  <2>4. /\ DOMAIN git_previews' = GitChats
        /\ \A c \in GitChats : git_previews'[c] # None => Sound(git_previews'[c])
    BY <1>3, ManifestsSound DEF Git!TurnBegins, Git!TurnEnds, Git!Preview, Git!Deny, GitInv
  <2>5. \A c \in GitChats : (git_previews[c] # None => Sound(git_previews[c]))'
    BY <2>2, <2>4
  <2> QED BY <2>1, <2>2, <2>3, <2>4, <2>5 DEF GitInv
<1>4. CASE \E c \in GitChats : Git!Allow(c)
  <2>1. PICK c \in GitChats : Git!Allow(c)
    BY <1>4
  <2>2. UNCHANGED <<Git!repo, git_fresh>>
    BY <2>1 DEF Git!Allow
  <2>3. RepoOK' /\ \A m : Sound(m) => Sound(m)'
    BY <2>2 DEF GitInv, RepoOK, Sound
  <2>4. ASSUME NEW b \in Git!Brokers PROVE QueueOK(b)'
    <3>1. CASE b = "gui" /\ ~git_tasks
      <4>1. Sound(git_previews[c]) /\ "gui" \in DOMAIN git_queue
        BY <2>1, <3>1, <2>4 DEF Git!Allow, GitInv
      <4>2. git_queue'[b] = Append(git_queue[b], Git!Operation(git_previews[c]))
        BY <2>1, <3>1, <4>1 DEF Git!Allow
      <4> QED BY <2>2, <2>4, <4>1, <4>2, Joins
    <3>2. CASE ~(b = "gui" /\ ~git_tasks)
      <4>1. git_queue'[b] = git_queue[b]
        BY <2>1, <2>4, <3>2 DEF Git!Allow
      <4> QED BY <2>2, <2>4, <4>1, SameQueue
    <3> QED BY <3>1, <3>2
  <2>5. /\ DOMAIN git_previews' = GitChats /\ DOMAIN git_queue' = Git!Brokers
        /\ \A d \in GitChats : git_previews'[d] # None => Sound(git_previews'[d])
    BY <2>1 DEF Git!Allow, GitInv
  <2>6. \A d \in GitChats : (git_previews[d] # None => Sound(git_previews[d]))'
    BY <2>3, <2>5
  <2> QED BY <2>3, <2>4, <2>5, <2>6 DEF GitInv
<1>5. CASE Git!TurnAsks
  <2>1. UNCHANGED <<Git!repo, git_fresh, git_previews>>
    BY <1>5 DEF Git!TurnAsks
  <2>2. RepoOK' /\ \A m : Sound(m) => Sound(m)'
    BY <2>1 DEF GitInv, RepoOK, Sound
  <2>3. PICK m \in Git!Manifests :
          git_queue' = [git_queue EXCEPT !["turn"] = Append(@, Git!Operation(m))]
    BY <1>5 DEF Git!TurnAsks
  <2>4. Sound(m)
    BY ManifestsSound DEF GitInv
  <2>5. ASSUME NEW b \in Git!Brokers PROVE QueueOK(b)'
    <3>1. CASE b = "turn"
      <4>1. git_queue'[b] = Append(git_queue[b], Git!Operation(m))
        BY <2>3, <2>5, <3>1 DEF GitInv
      <4> QED BY <2>1, <2>4, <2>5, <4>1, Joins
    <3>2. CASE b # "turn"
      <4>1. git_queue'[b] = git_queue[b]
        BY <2>3, <2>5, <3>2
      <4> QED BY <2>1, <2>5, <4>1, SameQueue
    <3> QED BY <3>1, <3>2
  <2> QED BY <2>1, <2>2, <2>3, <2>5 DEF GitInv
<1>6. CASE \E b \in Git!Brokers : Git!Check(b) \/ Git!RunFails(b)
  <2>1. PICK d \in Git!Brokers : Git!Check(d) \/ Git!RunFails(d)
    BY <1>6
  <2>2. /\ UNCHANGED <<Git!repo, git_fresh, git_previews>> /\ git_queue[d] # <<>>
        /\ DOMAIN git_queue' = DOMAIN git_queue
    BY <2>1 DEF Git!Check, Git!RunFails
  <2>3. RepoOK' /\ TipsStay /\ \A m : Sound(m) => Sound(m)'
    BY <2>2 DEF GitInv, RepoOK, Sound, TipsStay
  <2>4. ASSUME NEW b \in Git!Brokers PROVE QueueOK(b)'
    <3>1. CASE b # d
      <4>1. git_queue'[b] = git_queue[b]
        BY <2>1, <2>4, <3>1 DEF Git!Check, Git!RunFails, GitInv
      <4> QED BY <2>2, <2>4, <4>1, SameQueue
    <3>2. CASE b = d
      <4>1. CASE /\ Git!Matches(Head(git_queue[d]).manifest)
                 /\ git_queue'[d] = <<[Head(git_queue[d]) EXCEPT !.checked = TRUE]>>
                                      \o Tail(git_queue[d])
        BY <2>2, <3>2, <4>1, CheckSucceeds
      <4>2. CASE git_queue'[d] = Tail(git_queue[d])
        BY <2>2, <2>3, <3>2, <4>2, FirstLeaves
      <4> QED BY <2>1, <4>1, <4>2 DEF Git!Check, Git!RunFails, GitInv
    <3> QED BY <3>1, <3>2
  <2> QED BY <2>2, <2>3, <2>4 DEF GitInv
<1>7. CASE \E b \in Git!Brokers : Git!Run(b)
  <2>1. PICK d \in Git!Brokers : Git!Run(d)
    BY <1>7
  <2>2. /\ git_queue[d] # <<>> /\ Git!Git(Head(git_queue[d]).manifest)
        /\ git_queue' = [b \in Git!Brokers |-> IF b = d THEN Tail(git_queue[b])
                                               ELSE Git!Raced(git_queue[b])]
        /\ UNCHANGED <<git_fresh, git_previews>>
    BY <2>1 DEF Git!Run
  <2>3. RepoOK' /\ TipsStay
    BY <2>2, FirstIsSound, GitKeepsRepo DEF GitInv, RepoOK
  <2>4. ASSUME NEW b \in Git!Brokers PROVE QueueOK(b)'
    BY <2>2, <2>3, <2>4, FirstLeaves, RacedQueue
  <2> QED BY <2>2, <2>3, <2>4, SoundStays DEF GitInv
<1> QED BY <1>1, <1>2, <1>3, <1>4, <1>5, <1>6, <1>7 DEF Git!Next

\* What git does with a manifest that fits is what the manifest says.
LEMMA GitDoesWhatItSays ==
  ASSUME RepoOK, NEW m, Sound(m), Git!Matches(m), Git!Git(m)
  PROVE  /\ m.kind = "branch" => git_tips'[m.branch] = m.head
         /\ m.kind = "switch" => /\ git_ref' = m.branch /\ git_tips'[git_ref'] = m.oid
                                 /\ git_file' = Git!Last(m.oid)
         /\ m.kind \in {"stage", "hunk"} => git_index' = m.file /\ git_tips'[git_ref'] = m.head
         /\ m.kind = "commit" => /\ git_tips'[m.ref] = Append(m.head, m.index)
                                 /\ git_ref' = m.ref
         /\ m.kind = "push" => git_remote' = m.head
<1> USE DEF Git!Matches, Git!Tip, Sound, RepoOK
<1>1. CASE Git!Creates(m)
  BY <1>1 DEF Git!Creates
<1>2. CASE Git!Switches(m)
  BY <1>2 DEF Git!Switches, Git!Clean
<1>3. CASE Git!Stages(m) \/ Git!StagesHunk(m)
  BY <1>3, ContentAssumption DEF Git!Stages, Git!StagesHunk
<1>4. CASE Git!Commits(m)
  BY <1>4 DEF Git!Commits
<1>5. CASE Git!Pushes(m)
  BY <1>5 DEF Git!Pushes
<1> QED BY <1>1, <1>2, <1>3, <1>4, <1>5 DEF Git!Git

\* Whatever the chats, branches and bounds: an operation of Git that was checked, and that no
\* change has raced since, makes of the repository exactly what its review showed, of the
\* commit and the index it showed; however long it waited, and whatever turns, other
\* operations, the user and other programs did meanwhile.
THEOREM OperationsAreAsReviewed == MCSpec => DoesWhatWasReviewed
<1>1. MCInit => GitInv
  BY InitGit DEF MCInit
<1>2. GitInv /\ [MCNext]_MCVars => GitInv' /\ [Git!Next]_git_vars
  <2> SUFFICES ASSUME GitInv, [MCNext]_MCVars PROVE GitInv' /\ [Git!Next]_git_vars
    OBVIOUS
  <2>1. [Git!Next]_git_vars
    BY DEF MCNext, MCVars
  <2> QED BY <2>1, StepGit
<1> DEFINE Undisturbed(b) ==
             /\ git_queue[b] # <<>> /\ Head(git_queue[b]).checked /\ ~Head(git_queue[b]).raced
             /\ git_queue'[b] = Tail(git_queue[b]) /\ Git!repo' # Git!repo
           AsShown(b) ==
             LET m == Head(git_queue[b]).manifest
             IN  /\ m.kind = "branch" => git_tips'[m.branch] = m.head
                 /\ m.kind = "switch" =>
                      git_ref' = m.branch /\ git_tips'[git_ref'] = m.oid
                        /\ git_file' = Git!Last(m.oid)
                 /\ m.kind \in {"stage", "hunk"} =>
                      git_index' = m.file /\ git_tips'[git_ref'] = m.head
                 /\ m.kind = "commit" =>
                      git_tips'[m.ref] = Append(m.head, m.index) /\ git_ref' = m.ref
                 /\ m.kind = "push" => git_remote' = m.head
           Faithful == \A b \in Git!Brokers : Undisturbed(b) => AsShown(b)
<1>3. GitInv /\ [Git!Next]_git_vars => [Faithful]_git_vars
  <2> HIDE DEF Undisturbed, AsShown
  <2> SUFFICES ASSUME GitInv, Git!Next, NEW b \in Git!Brokers, Undisturbed(b) PROVE AsShown(b)
    BY DEF git_vars
  <2>0. /\ git_queue[b] # <<>> /\ Head(git_queue[b]).checked /\ ~Head(git_queue[b]).raced
        /\ git_queue'[b] = Tail(git_queue[b]) /\ Git!repo' # Git!repo
    BY DEF Undisturbed
  <2>1. ~Git!Edit /\ ~Git!OthersStage /\ ~Git!OthersCommit
    <3> SUFFICES ASSUME Git!Edit \/ Git!OthersStage \/ Git!OthersCommit PROVE FALSE
      OBVIOUS
    <3>1. git_queue'[b] = Git!Raced(git_queue[b])
      BY DEF Git!Edit, Git!OthersStage, Git!OthersCommit
    <3>2. TipsStay
      BY OthersKeepTips DEF GitInv
    <3> QED BY <2>0, <3>1, <3>2, RacedQueue
  <2>2. ASSUME NEW d \in Git!Brokers, Git!Run(d) PROVE d = b
    <3>1. TipsStay
      BY <2>2, FirstIsSound, GitKeepsRepo DEF Git!Run, GitInv
    <3>2. d # b => git_queue'[b] = Git!Raced(git_queue[b])
      BY <2>2 DEF Git!Run
    <3> QED BY <2>0, <3>1, <3>2, RacedQueue
  <2>3. Git!Run(b)
    BY <2>0, <2>1, <2>2 DEF Git!Next, Git!repo, Git!TurnBegins, Git!TurnEnds, Git!TurnAsks,
       Git!Preview, Git!Allow, Git!Deny, Git!Check, Git!RunFails
  <2>4. /\ Sound(Head(git_queue[b]).manifest) /\ Git!Matches(Head(git_queue[b]).manifest)
        /\ Git!Git(Head(git_queue[b]).manifest) /\ RepoOK
    BY <2>0, <2>3, FirstIsSound DEF Git!Run, GitInv
  <2> DEFINE m == Head(git_queue[b]).manifest
  <2>5. /\ m.kind = "branch" => git_tips'[m.branch] = m.head
        /\ m.kind = "switch" => /\ git_ref' = m.branch /\ git_tips'[git_ref'] = m.oid
                                /\ git_file' = Git!Last(m.oid)
        /\ m.kind \in {"stage", "hunk"} => git_index' = m.file /\ git_tips'[git_ref'] = m.head
        /\ m.kind = "commit" => /\ git_tips'[m.ref] = Append(m.head, m.index)
                                /\ git_ref' = m.ref
        /\ m.kind = "push" => git_remote' = m.head
    <3> HIDE DEF m
    <3>1. Sound(m) /\ Git!Matches(m) /\ Git!Git(m) /\ RepoOK
      BY <2>4 DEF m
    <3> QED BY <3>1, GitDoesWhatItSays
  <2> QED BY <2>5 DEF AsShown
<1> QED
  BY <1>1, <1>2, <1>3, PTL
     DEF MCSpec, DoesWhatWasReviewed, Git!DoesWhatWasReviewed, git_vars, Git!vars

-----------------------------------------------------------------------------
(* Installation.  While an activation is pending and something is kept for a   *)
(* rollback, the application is the one that was activated, unless it is being *)
(* rolled back; and what is kept is whole, unless a marker has come.           *)
Markers == [version : Versions, token : Nat]
Activations ==
  [target : Versions, previous : Versions \cup {None}, token : Nat \ {0}, late : BOOLEAN]
Steps ==
  {"idle", "reconcile", "confirm", "confirmMarker", "confirmPending", "overdue", "rollBack",
   "rollBackApp", "rollBackReceipt", "rollBackMarker", "rollBackPending", "inspect",
   "download", "extract", "look", "backUp", "activate", "receipt", "pending", "forget",
   "launch", "catch", "putBack"}
LauncherStates ==
  [at : Steps, version : Versions \cup {None}, healthy : BOOLEAN, old : Versions \cup {None},
   exists : BOOLEAN, backedUp : BOOLEAN, activated : BOOLEAN,
   pending : Activations \cup {None}]

InstallerTypes ==
  /\ inst_app \in Versions \cup {Broken, None} /\ inst_rollback \in Versions \cup {Broken, None}
  /\ inst_receipt \in Versions \cup {None}
  /\ inst_pending \in Activations \cup {None}
  /\ inst_marker \in Markers \cup {None} /\ inst_running \in Markers \cup {None}
  /\ inst_tokens \in Nat /\ inst_owed \in {"nothing", "application", "forgone"}
  /\ inst_launcher \in [{"l1"} -> LauncherStates]

\* The launcher at its step.
L == inst_launcher["l1"]

LauncherOK ==
  /\ L.at # "idle" => L.version \in Versions
  /\ L.at \in {"idle", "reconcile", "confirm", "confirmMarker", "confirmPending"} =>
       L.pending = None
  /\ L.at \in {"overdue", "rollBack", "rollBackApp", "rollBackReceipt"} => L.pending # None
  /\ L.at \in {"idle", "reconcile", "confirm", "confirmMarker", "confirmPending", "overdue",
               "inspect", "download", "extract", "look", "backUp"} => ~L.backedUp /\ ~L.activated
  /\ L.at \in {"receipt", "pending", "forget"} => L.activated /\ inst_app = L.version
  /\ L.at \in {"pending", "forget"} => L.backedUp

\* Before the first install has ended well.
NothingYet ==
  /\ inst_receipt = None /\ inst_rollback = None /\ inst_pending = None /\ inst_marker = None
  /\ inst_running = None
  /\ L.at \in {"idle", "reconcile", "inspect", "download", "extract", "activate", "receipt",
               "catch", "putBack"}
  /\ L.pending = None /\ ~L.exists /\ ~L.backedUp

Activating == inst_pending # None /\ inst_rollback # None

\* Afterwards: the files,
FilesOK ==
  /\ inst_app \in Versions \/ inst_rollback \in Versions
  /\ inst_running # None => inst_app \in Versions
  /\ Activating =>
       /\ \/ inst_app = inst_pending.target
          \/ inst_pending.late /\ ~Installing!Healthy /\ inst_running = None
       /\ inst_rollback \in Versions \/ Installing!Healthy
       /\ inst_running # None /\ inst_running.token # 0 =>
            /\ inst_running.token = inst_pending.token
            /\ inst_running.version = inst_pending.target

\* and what a step of the launcher rests on.
StepOK ==
  /\ L.at = "confirm" => Activating /\ Installing!Healthy
  /\ L.at \in {"confirmMarker", "confirmPending", "rollBackReceipt", "rollBackMarker",
               "rollBackPending"} => inst_rollback = None
  /\ L.at \in {"overdue", "rollBack", "rollBackApp"} =>
       Activating /\ inst_pending.late /\ ~Installing!Healthy
  /\ L.at \in {"overdue", "inspect", "download", "extract", "look", "launch"}
       /\ L.pending # None =>
       inst_pending # None /\ L.pending.token = inst_pending.token
  /\ L.at \in {"inspect", "download", "extract", "look", "launch"} /\ inst_pending # None =>
       inst_rollback # None /\ inst_app = inst_pending.target
  /\ L.at \in {"rollBack", "rollBackApp", "download", "extract", "look", "backUp", "activate",
               "receipt", "pending", "forget", "catch", "putBack"} => inst_running = None
  /\ L.at \in {"rollBackApp", "activate"} => inst_app = None
  /\ L.at \in {"download", "extract"} => (L.exists <=> inst_app # None)
  /\ L.at \in {"look", "backUp"} => inst_app # None
  /\ L.at = "backUp" => inst_rollback = None
  /\ L.at \in {"backUp", "activate", "receipt", "pending", "forget", "catch"} =>
       inst_pending = None /\ L.pending = None
  /\ L.at \in {"receipt", "pending", "forget", "catch"} => inst_rollback \in Versions
  /\ L.at = "putBack" /\ L.backedUp => inst_pending = None /\ inst_app = None

InstallerInv ==
  /\ InstallerTypes
  /\ LauncherOK
  /\ inst_owed = "nothing" => NothingYet
  /\ inst_owed = "application" => FilesOK /\ StepOK

Files == <<inst_app, inst_rollback, inst_receipt, inst_pending, inst_marker>>
Others == <<Files, inst_running, inst_tokens, inst_owed>>

LEMMA InitInstaller == Installing!Init => InstallerInv
<1> SUFFICES ASSUME Installing!Init PROVE InstallerInv
  OBVIOUS
<1>1. L = Installing!Idle /\ L \in LauncherStates
  BY DEF Installing!Init, Installing!Idle, L, LauncherStates, Steps
<1>2. InstallerTypes
  BY <1>1 DEF Installing!Init, InstallerTypes, L
<1>3. inst_owed = "nothing"
  BY DEF Installing!Init
<1>4. LauncherOK /\ NothingYet
  BY <1>1 DEF Installing!Init, Installing!Idle, LauncherOK, NothingYet
<1> QED BY <1>2, <1>3, <1>4 DEF InstallerInv

\* A launcher goes on to a step, and keeps what it knows.
LEMMA GoesOn ==
  ASSUME InstallerInv, NEW at \in Steps, Installing!To("l1", at)
  PROVE  /\ inst_launcher' \in [{"l1"} -> LauncherStates]
         /\ L'.at = at /\ L'.version = L.version /\ L'.healthy = L.healthy
         /\ L'.exists = L.exists /\ L'.backedUp = L.backedUp /\ L'.activated = L.activated
         /\ L'.pending = L.pending
  BY DEF InstallerInv, InstallerTypes, Installing!To, L, LauncherStates

\* A launcher that has ended rests on nothing.
LEMMA EndIsQuiet ==
  ASSUME InstallerInv, Installing!Ends("l1")
  PROVE  /\ inst_launcher' \in [{"l1"} -> LauncherStates]
         /\ LauncherOK' /\ StepOK' /\ L'.at = "idle" /\ L'.pending = None
         /\ ~L'.exists /\ ~L'.backedUp
<1>1. L' = Installing!Idle /\ inst_launcher' \in [{"l1"} -> LauncherStates]
  BY DEF InstallerInv, InstallerTypes, Installing!Ends, Installing!Idle, L, LauncherStates, Steps
<1>2. L'.at = "idle" /\ L'.pending = None /\ ~L'.exists /\ ~L'.backedUp /\ ~L'.activated
  BY <1>1 DEF Installing!Idle
<1> QED BY <1>1, <1>2 DEF LauncherOK, StepOK

LEMMA SameHealth == UNCHANGED Files => (Installing!Healthy' <=> Installing!Healthy)
  BY DEF Files, Installing!Healthy

\* When only the launcher changes, only what is said of its step has to be shown.
LEMMA OnlyTheLauncher ==
  ASSUME InstallerInv, UNCHANGED Others, inst_launcher' \in [{"l1"} -> LauncherStates],
         LauncherOK', inst_owed = "nothing" => NothingYet', inst_owed = "application" => StepOK'
  PROVE  InstallerInv'
<1>1. InstallerTypes'
  BY DEF InstallerInv, InstallerTypes, Others, Files
<1>2. inst_owed = "application" => FilesOK'
  BY SameHealth DEF InstallerInv, FilesOK, Activating, Others, Files
<1> QED BY <1>1, <1>2 DEF InstallerInv, Others

LEMMA StartsKeeps ==
  ASSUME InstallerInv, NEW version \in Versions, NEW healthy \in BOOLEAN,
         Installing!Starts("l1", version, healthy)
  PROVE  InstallerInv'
<1>1. UNCHANGED Others /\ L.at = "idle"
  BY DEF Installing!Starts, Installing!At, L, Others, Files
<1>2. L' = [Installing!Idle EXCEPT !.at = "reconcile", !.version = version, !.healthy = healthy]
  BY DEF Installing!Starts, L, InstallerInv, InstallerTypes
<1>3. /\ inst_launcher' \in [{"l1"} -> LauncherStates]
      /\ L'.at = "reconcile" /\ L'.version = version /\ L'.pending = None
      /\ ~L'.exists /\ ~L'.backedUp /\ ~L'.activated
  BY <1>2 DEF Installing!Starts, Installing!Idle, InstallerInv, InstallerTypes, L, LauncherStates,
     Steps
<1>4. LauncherOK' /\ StepOK'
  BY <1>3 DEF LauncherOK, StepOK
<1>5. inst_owed = "nothing" => NothingYet'
  BY <1>1, <1>3 DEF InstallerInv, NothingYet, Others, Files
<1> QED BY <1>1, <1>3, <1>4, <1>5, OnlyTheLauncher

\* Looking for an activation to confirm or to roll back.
LEMMA ReconcileKeeps == ASSUME InstallerInv, Installing!Reconcile("l1") PROVE InstallerInv'
<1>1. UNCHANGED Others /\ L.at = "reconcile" /\ L \in LauncherStates
  BY DEF Installing!Reconcile, Installing!At, L, Others, Files, InstallerInv, InstallerTypes
<1>2. L.version \in Versions /\ L.pending = None /\ ~L.backedUp /\ ~L.activated
  BY <1>1 DEF InstallerInv, LauncherOK
<1>3. CASE inst_pending = None /\ Installing!To("l1", "inspect")
  <2>1. /\ inst_launcher' \in [{"l1"} -> LauncherStates] /\ L'.at = "inspect"
        /\ L'.version \in Versions /\ L'.pending = None
        /\ L'.exists = L.exists /\ ~L'.backedUp /\ ~L'.activated
    BY <1>2, <1>3, GoesOn DEF Steps
  <2>2. LauncherOK'
    BY <2>1 DEF LauncherOK
  <2>3. StepOK'
    BY <1>1, <1>3, <2>1 DEF StepOK, Others, Files
  <2>4. inst_owed = "nothing" => NothingYet'
    BY <1>1, <2>1 DEF InstallerInv, NothingYet, Others, Files
  <2> QED BY <1>1, <2>1, <2>2, <2>3, <2>4, OnlyTheLauncher
<1>4. CASE Installing!Ends("l1")
  BY <1>1, <1>4, EndIsQuiet, OnlyTheLauncher DEF InstallerInv, NothingYet, Others, Files
<1>5. CASE Activating /\ Installing!Healthy /\ Installing!To("l1", "confirm")
  <2>1. /\ inst_launcher' \in [{"l1"} -> LauncherStates] /\ L'.at = "confirm"
        /\ L'.version \in Versions /\ L'.pending = None
        /\ ~L'.backedUp /\ ~L'.activated
    BY <1>2, <1>5, GoesOn DEF Steps
  <2>2. LauncherOK'
    BY <2>1 DEF LauncherOK
  <2>3. StepOK'
    BY <1>1, <1>5, <2>1, SameHealth DEF StepOK, Activating, Others, Files
  <2>4. inst_owed # "nothing"
    BY <1>5 DEF InstallerInv, NothingYet, Activating
  <2> QED BY <1>1, <2>1, <2>2, <2>3, <2>4, OnlyTheLauncher
<1>6. CASE /\ Activating /\ ~Installing!Healthy
           /\ inst_launcher' = [inst_launcher EXCEPT
                !["l1"].at = IF inst_pending.late THEN "overdue" ELSE "inspect",
                !["l1"].pending = IF inst_pending.late \/ inst_marker = None THEN inst_pending
                                  ELSE None]
  <2>1. /\ inst_launcher' \in [{"l1"} -> LauncherStates]
        /\ L'.at = (IF inst_pending.late THEN "overdue" ELSE "inspect")
        /\ L'.pending = (IF inst_pending.late \/ inst_marker = None THEN inst_pending ELSE None)
        /\ L'.version \in Versions /\ ~L'.backedUp /\ ~L'.activated
    <3> DEFINE at == IF inst_pending.late THEN "overdue" ELSE "inspect"
               known == IF inst_pending.late \/ inst_marker = None THEN inst_pending ELSE None
    <3>1. at \in Steps /\ known \in Activations \cup {None}
      BY DEF Steps, InstallerInv, InstallerTypes
    <3>2. L' = [L EXCEPT !.at = at, !.pending = known]
      BY <1>6 DEF L, InstallerInv, InstallerTypes
    <3> HIDE DEF at, known
    <3>3. /\ L' \in LauncherStates /\ L'.at = at /\ L'.pending = known
          /\ L'.version = L.version /\ ~L'.backedUp /\ ~L'.activated
      BY <1>1, <1>2, <3>1, <3>2 DEF LauncherStates
    <3>4. inst_launcher' \in [{"l1"} -> LauncherStates]
      BY <1>6, <3>3 DEF L, InstallerInv, InstallerTypes
    <3> QED BY <1>2, <3>3, <3>4 DEF at, known
  <2>2. LauncherOK'
    BY <1>6, <2>1 DEF LauncherOK, Activating
  <2>3. inst_owed = "application" => StepOK'
    <3> SUFFICES ASSUME inst_owed = "application" PROVE StepOK'
      OBVIOUS
    <3>1. ~Installing!Healthy' /\ Activating'
      BY <1>1, <1>6, SameHealth DEF Activating, Others, Files
    <3>2. ~inst_pending.late => inst_app = inst_pending.target
      BY <1>6 DEF InstallerInv, FilesOK
    <3> QED BY <1>1, <1>6, <2>1, <3>1, <3>2 DEF StepOK, Activating, Others, Files
  <2>4. inst_owed # "nothing"
    BY <1>6 DEF InstallerInv, NothingYet, Activating
  <2> QED BY <1>1, <2>1, <2>2, <2>3, <2>4, OnlyTheLauncher
<1> QED BY <1>3, <1>4, <1>5, <1>6 DEF Installing!Reconcile, Activating

LEMMA OverdueKeeps == ASSUME InstallerInv, Installing!Overdue("l1") PROVE InstallerInv'
<1>1. /\ UNCHANGED Others /\ L.at = "overdue"
      /\ Installing!To("l1", IF inst_running # None THEN "inspect" ELSE "rollBack")
  BY DEF Installing!Overdue, Installing!At, L, Others, Files
<1>2. /\ L.version \in Versions /\ L.pending # None /\ ~L.backedUp /\ ~L.activated
      /\ inst_owed # "nothing"
  BY <1>1 DEF InstallerInv, LauncherOK, NothingYet
<1>3. /\ inst_launcher' \in [{"l1"} -> LauncherStates]
      /\ L'.at = (IF inst_running # None THEN "inspect" ELSE "rollBack")
      /\ L'.version \in Versions /\ L'.pending = L.pending /\ ~L'.backedUp /\ ~L'.activated
  BY <1>1, <1>2, GoesOn DEF Steps
<1>4. LauncherOK'
  BY <1>2, <1>3 DEF LauncherOK
<1>5. ASSUME inst_owed = "application" PROVE StepOK'
  <2>1. /\ Activating /\ inst_pending.late /\ ~Installing!Healthy
        /\ L.pending.token = inst_pending.token
    BY <1>1, <1>2, <1>5 DEF InstallerInv, StepOK
  <2>2. inst_running # None => inst_app = inst_pending.target
    BY <1>5, <2>1 DEF InstallerInv, FilesOK
  <2> QED BY <1>1, <1>3, <2>1, <2>2, SameHealth DEF StepOK, Activating, Others, Files
<1> QED BY <1>1, <1>2, <1>3, <1>4, <1>5, OnlyTheLauncher

LEMMA InspectKeeps ==
  ASSUME InstallerInv, NEW checksVersion \in BOOLEAN, Installing!Inspect("l1", checksVersion)
  PROVE  InstallerInv'
<1>1. UNCHANGED Others /\ L.at = "inspect" /\ L \in LauncherStates
  BY DEF Installing!Inspect, Installing!At, L, Others, Files, InstallerInv, InstallerTypes
<1>2. L.version \in Versions /\ ~L.backedUp /\ ~L.activated
  BY <1>1 DEF InstallerInv, LauncherOK
<1>3. CASE inst_app # None /\ inst_receipt = L.version /\ Installing!To("l1", "launch")
  <2>1. /\ inst_launcher' \in [{"l1"} -> LauncherStates] /\ L'.at = "launch"
        /\ L'.version \in Versions /\ L'.pending = L.pending
    BY <1>2, <1>3, GoesOn DEF Steps
  <2>2. LauncherOK'
    BY <2>1 DEF LauncherOK
  <2>3. inst_owed # "nothing"
    BY <1>2, <1>3, InstallerAssumption DEF InstallerInv, NothingYet
  <2>4. inst_owed = "application" => StepOK'
    BY <1>1, <2>1 DEF InstallerInv, StepOK, Others, Files
  <2> QED BY <1>1, <2>1, <2>2, <2>3, <2>4, OnlyTheLauncher
<1>4. CASE Installing!Ends("l1")
  BY <1>1, <1>4, EndIsQuiet, OnlyTheLauncher DEF InstallerInv, NothingYet, Others, Files
<1>5. CASE /\ ~(inst_app # None /\ (inst_receipt = None \/ inst_running # None))
           /\ inst_launcher' = [inst_launcher EXCEPT
                !["l1"].at = "download", !["l1"].old = inst_receipt,
                !["l1"].exists = inst_app # None]
  <2>1. inst_receipt \in Versions \cup {None}
    BY DEF InstallerInv, InstallerTypes
  <2>2. L' = [L EXCEPT !.at = "download", !.old = inst_receipt, !.exists = inst_app # None]
    BY <1>5 DEF L, InstallerInv, InstallerTypes
  <2>3. /\ L' \in LauncherStates /\ L'.at = "download" /\ L'.version \in Versions
        /\ L'.pending = L.pending /\ (L'.exists <=> inst_app # None)
        /\ ~L'.backedUp /\ ~L'.activated
    BY <1>1, <1>2, <2>1, <2>2 DEF LauncherStates, Steps
  <2>4. inst_launcher' \in [{"l1"} -> LauncherStates]
    BY <1>5, <2>3 DEF L, InstallerInv, InstallerTypes
  <2>5. LauncherOK'
    BY <2>3 DEF LauncherOK
  <2>6. ASSUME inst_owed = "application" PROVE StepOK'
    <3>1. inst_running = None
      BY <1>5, <2>6, InstallerAssumption DEF InstallerInv, FilesOK
    <3> QED BY <1>1, <2>3, <2>6, <3>1 DEF InstallerInv, StepOK, Others, Files
  <2>7. inst_owed = "nothing" => NothingYet'
    BY <1>1, <1>5, <2>3 DEF InstallerInv, NothingYet, Others, Files
  <2> QED BY <1>1, <2>4, <2>5, <2>6, <2>7, OnlyTheLauncher
<1> QED BY <1>3, <1>4, <1>5 DEF Installing!Inspect, L

LEMMA StagesKeep ==
  ASSUME InstallerInv, Installing!Download("l1") \/ Installing!Extract("l1")
  PROVE  InstallerInv'
<1>1. /\ UNCHANGED Others
      /\ \/ L.at = "download" /\ Installing!To("l1", "extract")
         \/ L.at = "extract" /\ Installing!To("l1", IF L.exists THEN "look" ELSE "activate")
  BY DEF Installing!Download, Installing!Extract, Installing!At, L, Others, Files
<1>2. L.version \in Versions /\ ~L.backedUp /\ ~L.activated
  BY <1>1 DEF InstallerInv, LauncherOK
<1>3. /\ inst_launcher' \in [{"l1"} -> LauncherStates] /\ L'.version = L.version
      /\ \/ L.at = "download" /\ L'.at = "extract"
         \/ L.at = "extract" /\ L'.at = (IF L.exists THEN "look" ELSE "activate")
      /\ L'.exists = L.exists /\ L'.backedUp = L.backedUp /\ L'.activated = L.activated
      /\ L'.pending = L.pending
  BY <1>1, GoesOn DEF Steps
<1>4. LauncherOK'
  BY <1>2, <1>3 DEF LauncherOK
<1>5. inst_owed = "nothing" => NothingYet'
  BY <1>1, <1>3 DEF InstallerInv, NothingYet, Others, Files
<1>6. ASSUME inst_owed = "application" PROVE StepOK'
  <2>1. ~L.exists => inst_app = None /\ inst_pending = None
    BY <1>1, <1>6, InstallerAssumption
       DEF InstallerInv, InstallerTypes, StepOK, Activations
  <2> QED BY <1>1, <1>3, <1>6, <2>1 DEF InstallerInv, StepOK, Others, Files
<1> QED BY <1>1, <1>3, <1>4, <1>5, <1>6, OnlyTheLauncher

\* To put back is a step that rests on little.
LEMMA CatchKeeps ==
  ASSUME InstallerInv, UNCHANGED Others, Installing!To("l1", Installing!Catch("l1")),
         L.at \in {"download", "extract", "look", "backUp", "activate", "receipt", "pending"}
  PROVE  InstallerInv'
<1>1. /\ inst_launcher' \in [{"l1"} -> LauncherStates]
      /\ L'.at = (IF L.activated THEN "catch" ELSE "putBack") /\ L'.version = L.version
      /\ L'.exists = L.exists /\ L'.backedUp = L.backedUp /\ L'.activated = L.activated
      /\ L'.pending = L.pending
  BY GoesOn DEF Steps, Installing!Catch, L
<1>2. LauncherOK'
  BY <1>1 DEF InstallerInv, LauncherOK
<1>3. inst_owed = "nothing" => NothingYet'
  BY <1>1 DEF InstallerInv, NothingYet, Others, Files
<1>4. ASSUME inst_owed = "application" PROVE StepOK'
  <2>1. /\ inst_running = None
        /\ L.at \in {"activate", "receipt", "pending"} =>
             inst_pending = None /\ L.pending = None
        /\ L.at \in {"receipt", "pending"} => inst_rollback \in Versions
        /\ L.at = "activate" => inst_app = None
    BY <1>4 DEF InstallerInv, StepOK
  <2>2. L.at = "activate" => inst_rollback \in Versions
    BY <1>4, <2>1, InstallerAssumption DEF InstallerInv, FilesOK
  <2>3. L.activated => L.at \in {"activate", "receipt", "pending"}
    BY DEF InstallerInv, LauncherOK
  <2>4. ~L.activated /\ L.backedUp => L.at = "activate"
    BY DEF InstallerInv, LauncherOK
  <2> QED BY <1>1, <2>1, <2>2, <2>3, <2>4 DEF StepOK, Others, Files
<1> QED BY <1>1, <1>2, <1>3, <1>4, OnlyTheLauncher

LEMMA LookKeeps == ASSUME InstallerInv, Installing!Look("l1") PROVE InstallerInv'
<1>1. L.at = "look" /\ UNCHANGED Others
  BY DEF Installing!Look, Installing!At, L, Others, Files
<1>2. CASE inst_rollback = None /\ Installing!To("l1", "backUp")
  <2>1. /\ inst_launcher' \in [{"l1"} -> LauncherStates] /\ L'.at = "backUp"
        /\ L'.version = L.version /\ L'.backedUp = L.backedUp /\ L'.activated = L.activated
        /\ L'.pending = L.pending
    BY <1>2, GoesOn DEF Steps
  <2>2. LauncherOK'
    BY <1>1, <2>1 DEF InstallerInv, LauncherOK
  <2>3. inst_owed # "nothing"
    BY <1>1 DEF InstallerInv, NothingYet
  <2>4. inst_owed = "application" => StepOK'
    BY <1>1, <1>2, <2>1 DEF InstallerInv, StepOK, Others, Files
  <2> QED BY <1>1, <2>1, <2>2, <2>3, <2>4, OnlyTheLauncher
<1>3. CASE Installing!To("l1", Installing!Catch("l1"))
  BY <1>1, <1>3, CatchKeeps
<1> QED BY <1>2, <1>3 DEF Installing!Look

LEMMA FailsKeeps == ASSUME InstallerInv, Installing!Fails("l1") PROVE InstallerInv'
<1>1. /\ L.at \in {"download", "extract", "look", "backUp", "activate", "receipt", "pending"}
      /\ UNCHANGED Others /\ Installing!To("l1", Installing!Catch("l1"))
  BY DEF Installing!Fails, L, Others, Files
<1> QED BY <1>1, CatchKeeps

\* Confirming: what was kept goes.
LEMMA ConfirmKeeps ==
  ASSUME InstallerInv,
         \/ Installing!Confirm("l1") \/ Installing!ConfirmMarker("l1")
         \/ Installing!ConfirmPending("l1")
  PROVE  InstallerInv'
<1>1. /\ UNCHANGED <<inst_app, inst_receipt, inst_running, inst_tokens, inst_owed>>
      /\ \/ /\ L.at = "confirm" /\ inst_rollback' = None
            /\ UNCHANGED <<inst_pending, inst_marker>>
            /\ Installing!To("l1", "confirmMarker")
         \/ /\ L.at = "confirmMarker" /\ inst_marker' = None
            /\ UNCHANGED <<inst_rollback, inst_pending>>
            /\ Installing!To("l1", "confirmPending")
         \/ /\ L.at = "confirmPending" /\ inst_pending' = None
            /\ UNCHANGED <<inst_rollback, inst_marker>>
            /\ Installing!To("l1", "inspect")
  BY DEF Installing!Confirm, Installing!ConfirmMarker, Installing!ConfirmPending, Installing!At, L
<1>2. /\ inst_launcher' \in [{"l1"} -> LauncherStates]
      /\ L'.at = (IF L.at = "confirm" THEN "confirmMarker"
                  ELSE IF L.at = "confirmMarker" THEN "confirmPending" ELSE "inspect")
      /\ L'.version = L.version /\ L'.backedUp = L.backedUp /\ L'.activated = L.activated
      /\ L'.pending = L.pending
  BY <1>1, GoesOn DEF Steps
<1>3. InstallerTypes'
  BY <1>1, <1>2 DEF InstallerInv, InstallerTypes
<1>4. LauncherOK' /\ L'.pending = None
  BY <1>1, <1>2 DEF InstallerInv, LauncherOK
<1>5. inst_owed # "nothing"
  BY <1>1 DEF InstallerInv, NothingYet
<1>6. ASSUME inst_owed = "application" PROVE FilesOK' /\ StepOK'
  <2>1. inst_app \in Versions
    <3>1. CASE L.at = "confirm"
      <4>1. Activating /\ Installing!Healthy
        BY <1>6, <3>1 DEF InstallerInv, StepOK
      <4>2. inst_app = inst_pending.target
        BY <1>6, <4>1 DEF InstallerInv, FilesOK
      <4>3. inst_pending \in Activations
        BY <4>1 DEF InstallerInv, InstallerTypes, Activating
      <4> QED BY <4>2, <4>3 DEF Activations
    <3>2. CASE L.at # "confirm"
      <4>1. inst_rollback = None
        BY <1>1, <1>6, <3>2 DEF InstallerInv, StepOK
      <4> QED BY <1>6, <4>1, InstallerAssumption DEF InstallerInv, FilesOK
    <3> QED BY <3>1, <3>2
  <2>2. inst_rollback' = None
    BY <1>1, <1>6 DEF InstallerInv, StepOK
  <2>3. FilesOK'
    BY <1>1, <2>1, <2>2 DEF FilesOK, Activating
  <2> QED BY <1>1, <1>2, <1>4, <2>2, <2>3 DEF StepOK
<1> QED BY <1>1, <1>3, <1>4, <1>5, <1>6 DEF InstallerInv

\* Rolling back: the application goes, and what was kept takes its place.
LEMMA RollBackKeeps == ASSUME InstallerInv, Installing!RollBack("l1") PROVE InstallerInv'
<1>1. /\ L.at = "rollBack" /\ inst_app' = None /\ Installing!To("l1", "rollBackApp")
      /\ UNCHANGED <<inst_rollback, inst_receipt, inst_pending, inst_marker, inst_running,
                     inst_tokens, inst_owed>>
  BY DEF Installing!RollBack, Installing!At, L
<1>2. /\ inst_launcher' \in [{"l1"} -> LauncherStates] /\ L'.at = "rollBackApp"
      /\ L'.version = L.version /\ L'.pending = L.pending
  BY <1>1, GoesOn DEF Steps
<1>3. InstallerTypes'
  BY <1>1, <1>2 DEF InstallerInv, InstallerTypes
<1>4. LauncherOK' /\ inst_owed # "nothing"
  BY <1>1, <1>2 DEF InstallerInv, LauncherOK, NothingYet
<1>5. ASSUME inst_owed = "application" PROVE FilesOK' /\ StepOK'
  <2>1. Activating /\ inst_pending.late /\ ~Installing!Healthy /\ inst_running = None
    BY <1>1, <1>5 DEF InstallerInv, StepOK
  <2>2. inst_rollback \in Versions
    BY <1>5, <2>1 DEF InstallerInv, FilesOK
  <2>3. ~Installing!Healthy'
    BY <1>1, <2>1 DEF Installing!Healthy
  <2>4. FilesOK'
    BY <1>1, <2>1, <2>2, <2>3 DEF FilesOK, Activating
  <2> QED BY <1>1, <1>2, <2>1, <2>3, <2>4 DEF StepOK, Activating
<1> QED BY <1>1, <1>3, <1>4, <1>5 DEF InstallerInv

LEMMA RollBackAppKeeps == ASSUME InstallerInv, Installing!RollBackApp("l1") PROVE InstallerInv'
<1>1. /\ L.at = "rollBackApp"
      /\ UNCHANGED <<inst_receipt, inst_pending, inst_marker, inst_running, inst_tokens,
                     inst_owed>>
  BY DEF Installing!RollBackApp, Installing!At, L
<1>2. CASE /\ inst_app' = inst_rollback /\ inst_rollback' = None
           /\ Installing!To("l1", "rollBackReceipt")
  <2>1. /\ inst_launcher' \in [{"l1"} -> LauncherStates] /\ L'.at = "rollBackReceipt"
        /\ L'.version = L.version /\ L'.pending = L.pending
    BY <1>2, GoesOn DEF Steps
  <2>2. InstallerTypes'
    BY <1>1, <1>2, <2>1 DEF InstallerInv, InstallerTypes
  <2>3. LauncherOK' /\ inst_owed # "nothing"
    BY <1>1, <2>1 DEF InstallerInv, LauncherOK, NothingYet
  <2>4. ASSUME inst_owed = "application" PROVE FilesOK' /\ StepOK'
    <3>1. inst_rollback \in Versions
      BY <1>1, <2>4 DEF InstallerInv, StepOK, FilesOK
    <3> QED BY <1>1, <1>2, <2>1, <3>1 DEF StepOK, FilesOK, Activating
  <2> QED BY <1>1, <2>2, <2>3, <2>4 DEF InstallerInv
<1>3. CASE Installing!Ends("l1") /\ UNCHANGED <<inst_app, inst_rollback>>
  BY <1>1, <1>3, EndIsQuiet, OnlyTheLauncher DEF InstallerInv, NothingYet, Others, Files
<1> QED BY <1>2, <1>3 DEF Installing!RollBackApp

LEMMA RolledBackKeeps ==
  ASSUME InstallerInv,
         \/ Installing!RollBackReceipt("l1") \/ Installing!RollBackMarker("l1")
         \/ Installing!RollBackPending("l1")
  PROVE  InstallerInv'
<1>1. /\ L.at \in {"rollBackReceipt", "rollBackMarker", "rollBackPending"}
      /\ UNCHANGED <<inst_app, inst_rollback, inst_running, inst_tokens, inst_owed>>
      /\ inst_pending' \in {inst_pending, None} /\ inst_marker' \in {inst_marker, None}
  BY DEF Installing!RollBackReceipt, Installing!RollBackMarker, Installing!RollBackPending,
     Installing!At, L
<1>2. inst_receipt' \in Versions \cup {None}
  <2>1. L \in LauncherStates /\ inst_receipt \in Versions \cup {None}
    BY DEF InstallerInv, InstallerTypes, L
  <2>2. L.at = "rollBackReceipt" => L.pending \in Activations
    BY <2>1 DEF InstallerInv, LauncherOK, LauncherStates
  <2>3. L.at = "rollBackReceipt" => L.pending.previous \in Versions \cup {None}
    BY <2>2 DEF Activations
  <2> QED BY <2>1, <2>3 DEF Installing!RollBackReceipt, Installing!RollBackMarker,
             Installing!RollBackPending, Installing!At, L
<1>3. /\ inst_launcher' \in [{"l1"} -> LauncherStates] /\ LauncherOK'
      /\ L'.at \in {"rollBackMarker", "rollBackPending", "idle"}
  <2>1. CASE Installing!Ends("l1")
    BY <2>1, EndIsQuiet
  <2>2. ASSUME NEW at \in {"rollBackMarker", "rollBackPending"}, Installing!To("l1", at)
        PROVE  /\ inst_launcher' \in [{"l1"} -> LauncherStates] /\ LauncherOK'
               /\ L'.at \in {"rollBackMarker", "rollBackPending", "idle"}
    <3>1. /\ inst_launcher' \in [{"l1"} -> LauncherStates] /\ L'.at = at
          /\ L'.version = L.version
      BY <2>2, GoesOn DEF Steps
    <3> QED BY <1>1, <2>2, <3>1 DEF InstallerInv, LauncherOK
  <2> QED BY <2>1, <2>2 DEF Installing!RollBackReceipt, Installing!RollBackMarker,
             Installing!RollBackPending
<1>4. InstallerTypes'
  BY <1>1, <1>2, <1>3 DEF InstallerInv, InstallerTypes
<1>5. inst_owed # "nothing"
  BY <1>1 DEF InstallerInv, NothingYet
<1>6. ASSUME inst_owed = "application" PROVE FilesOK' /\ StepOK'
  <2>1. inst_rollback = None
    BY <1>1, <1>6 DEF InstallerInv, StepOK
  <2>2. FilesOK'
    BY <1>1, <1>6, <2>1 DEF InstallerInv, FilesOK, Activating
  <2> QED BY <1>1, <1>3, <2>1, <2>2 DEF StepOK
<1> QED BY <1>1, <1>3, <1>4, <1>5, <1>6 DEF InstallerInv

\* Keeping the application for a rollback.
LEMMA BackUpKeeps == ASSUME InstallerInv, Installing!BackUp("l1") PROVE InstallerInv'
<1>1. /\ L.at = "backUp" /\ L \in LauncherStates
      /\ UNCHANGED <<inst_receipt, inst_pending, inst_marker, inst_running, inst_tokens,
                     inst_owed>>
  BY DEF Installing!BackUp, Installing!At, L, InstallerInv, InstallerTypes
<1>2. CASE /\ inst_app # None /\ inst_rollback = None
           /\ inst_rollback' = inst_app /\ inst_app' = None
           /\ inst_launcher' = [inst_launcher EXCEPT !["l1"].at = "activate",
                                                     !["l1"].backedUp = TRUE]
  <2>1. L' = [L EXCEPT !.at = "activate", !.backedUp = TRUE]
    BY <1>2 DEF L, InstallerInv, InstallerTypes
  <2>2. /\ L' \in LauncherStates /\ L'.at = "activate" /\ L'.version = L.version
        /\ L'.activated = L.activated /\ L'.pending = L.pending
    BY <1>1, <2>1 DEF LauncherStates, Steps
  <2>3. inst_launcher' \in [{"l1"} -> LauncherStates]
    BY <1>2, <2>2 DEF L, InstallerInv, InstallerTypes
  <2>4. InstallerTypes'
    BY <1>1, <1>2, <2>3 DEF InstallerInv, InstallerTypes
  <2>5. LauncherOK' /\ inst_owed # "nothing"
    BY <1>1, <2>2 DEF InstallerInv, LauncherOK, NothingYet
  <2>6. ASSUME inst_owed = "application" PROVE FilesOK' /\ StepOK'
    <3>1. /\ inst_app \in Versions /\ inst_running = None
          /\ inst_pending = None /\ L.pending = None
      BY <1>1, <1>2, <2>6, InstallerAssumption DEF InstallerInv, FilesOK, StepOK
    <3>2. FilesOK'
      BY <1>1, <1>2, <3>1 DEF FilesOK, Activating
    <3> QED BY <1>1, <1>2, <2>2, <3>1, <3>2 DEF StepOK
  <2> QED BY <1>1, <2>4, <2>5, <2>6 DEF InstallerInv
<1>3. CASE /\ Installing!To("l1", Installing!Catch("l1"))
           /\ UNCHANGED <<inst_app, inst_rollback>>
  BY <1>1, <1>3, CatchKeeps DEF Others, Files
<1> QED BY <1>2, <1>3 DEF Installing!BackUp

LEMMA ActivateKeeps == ASSUME InstallerInv, Installing!Activate("l1") PROVE InstallerInv'
<1>1. /\ L.at = "activate" /\ L \in LauncherStates
      /\ UNCHANGED <<inst_rollback, inst_receipt, inst_pending, inst_marker, inst_running,
                     inst_tokens, inst_owed>>
  BY DEF Installing!Activate, Installing!At, L, InstallerInv, InstallerTypes
<1>2. CASE /\ inst_app = None /\ inst_app' = L.version
           /\ inst_launcher' = [inst_launcher EXCEPT !["l1"].at = "receipt",
                                                     !["l1"].activated = TRUE]
  <2>1. L' = [L EXCEPT !.at = "receipt", !.activated = TRUE]
    BY <1>2 DEF L, InstallerInv, InstallerTypes
  <2>2. /\ L' \in LauncherStates /\ L'.at = "receipt" /\ L'.version = L.version /\ L'.activated
        /\ L'.pending = L.pending /\ L'.exists = L.exists /\ L'.backedUp = L.backedUp
    BY <1>1, <2>1 DEF LauncherStates, Steps
  <2>3. inst_launcher' \in [{"l1"} -> LauncherStates] /\ L.version \in Versions
    BY <1>1, <1>2, <2>2 DEF L, InstallerInv, InstallerTypes, LauncherOK
  <2>4. InstallerTypes'
    BY <1>1, <1>2, <2>3 DEF InstallerInv, InstallerTypes
  <2>5. LauncherOK'
    BY <1>1, <1>2, <2>2, <2>3 DEF InstallerInv, LauncherOK
  <2>6. ASSUME inst_owed = "application" PROVE FilesOK' /\ StepOK'
    <3>1. /\ inst_rollback \in Versions /\ inst_running = None
          /\ inst_pending = None /\ L.pending = None
      BY <1>1, <1>2, <2>6, InstallerAssumption DEF InstallerInv, FilesOK, StepOK
    <3>2. FilesOK'
      BY <1>1, <1>2, <2>3, <3>1 DEF FilesOK, Activating
    <3> QED BY <1>1, <1>2, <2>2, <3>1, <3>2 DEF StepOK
  <2>7. inst_owed = "nothing" => NothingYet'
    BY <1>1, <2>2 DEF InstallerInv, NothingYet
  <2> QED BY <1>1, <2>4, <2>5, <2>6, <2>7 DEF InstallerInv
<1>3. CASE Installing!To("l1", Installing!Catch("l1")) /\ UNCHANGED inst_app
  BY <1>1, <1>3, CatchKeeps DEF Others, Files
<1> QED BY <1>2, <1>3 DEF Installing!Activate, L

\* An install that kept nothing ends well here: a whole application is owed from then on.
LEMMA WriteReceiptKeeps == ASSUME InstallerInv, Installing!WriteReceipt("l1") PROVE InstallerInv'
<1>1. /\ L.at = "receipt" /\ L.activated /\ L.version \in Versions /\ inst_app = L.version
      /\ L \in LauncherStates /\ inst_receipt' = L.version
      /\ UNCHANGED <<inst_app, inst_rollback, inst_pending, inst_marker, inst_running, inst_tokens>>
  BY DEF Installing!WriteReceipt, Installing!At, L, InstallerInv, InstallerTypes, LauncherOK
<1>2. CASE /\ L.backedUp /\ UNCHANGED inst_owed
           /\ Installing!To("l1", IF L.healthy THEN "pending" ELSE "forget")
  <2>1. /\ inst_launcher' \in [{"l1"} -> LauncherStates]
        /\ L'.at \in {"pending", "forget"} /\ L'.version = L.version
        /\ L'.backedUp = L.backedUp /\ L'.activated = L.activated /\ L'.pending = L.pending
    BY <1>2, GoesOn DEF Steps
  <2>2. InstallerTypes'
    BY <1>1, <1>2, <2>1 DEF InstallerInv, InstallerTypes
  <2>3. LauncherOK' /\ inst_owed # "nothing"
    BY <1>1, <1>2, <2>1 DEF LauncherOK, InstallerInv, NothingYet
  <2>4. ASSUME inst_owed = "application" PROVE FilesOK' /\ StepOK'
    <3>1. /\ inst_rollback \in Versions /\ inst_running = None
          /\ inst_pending = None /\ L.pending = None
      BY <1>1, <2>4 DEF InstallerInv, StepOK
    <3> QED BY <1>1, <2>1, <3>1 DEF FilesOK, StepOK, Activating
  <2> QED BY <1>2, <2>2, <2>3, <2>4 DEF InstallerInv
<1>3. CASE ~L.backedUp /\ Installing!To("l1", "launch") /\ Installing!Owe
  <2>1. /\ inst_launcher' \in [{"l1"} -> LauncherStates]
        /\ L'.at = "launch" /\ L'.version = L.version /\ L'.pending = L.pending
    BY <1>3, GoesOn DEF Steps
  <2>2. inst_owed' = IF inst_owed = "nothing" THEN "application" ELSE inst_owed
    BY <1>3 DEF Installing!Owe
  <2>3. InstallerTypes'
    BY <1>1, <2>1, <2>2 DEF InstallerInv, InstallerTypes
  <2>4. LauncherOK' /\ inst_owed' # "nothing"
    BY <1>1, <2>1, <2>2 DEF LauncherOK
  <2>5. ASSUME inst_owed' = "application" PROVE FilesOK' /\ StepOK'
    <3>1. inst_pending = None
      BY <1>1, <2>2, <2>5 DEF InstallerInv, InstallerTypes, NothingYet, StepOK
    <3>2. L.pending = None
      BY <1>1, <2>2, <2>5 DEF InstallerInv, NothingYet, StepOK
    <3> QED BY <1>1, <2>1, <3>1, <3>2 DEF FilesOK, StepOK, Activating
  <2> QED BY <2>2, <2>3, <2>4, <2>5 DEF InstallerInv
<1> QED BY <1>2, <1>3 DEF Installing!WriteReceipt, L

\* An update is pending from here, on the word of its first start.
LEMMA WritePendingKeeps == ASSUME InstallerInv, Installing!WritePending("l1") PROVE InstallerInv'
<1>1. /\ L.at = "pending" /\ L.version \in Versions /\ inst_app = L.version
      /\ L \in LauncherStates /\ inst_tokens \in Nat
      /\ inst_pending' = [target |-> L.version, previous |-> L.old,
                          token |-> inst_tokens + 1, late |-> FALSE]
      /\ inst_launcher' = [inst_launcher EXCEPT !["l1"].at = "launch",
                                                !["l1"].pending = inst_pending']
      /\ inst_tokens' = inst_tokens + 1
      /\ UNCHANGED <<inst_app, inst_rollback, inst_receipt, inst_marker, inst_running>>
  BY DEF Installing!WritePending, Installing!At, L, InstallerInv, InstallerTypes, LauncherOK
<1>2. inst_owed # "nothing" /\ UNCHANGED inst_owed
  BY <1>1 DEF Installing!WritePending, Installing!Owe, InstallerInv, NothingYet
<1>3. inst_pending' \in Activations /\ inst_pending'.target = L.version
  BY <1>1 DEF LauncherStates, Activations
<1>4. L' = [L EXCEPT !.at = "launch", !.pending = inst_pending']
  BY <1>1 DEF L, InstallerInv, InstallerTypes
<1>5. /\ L' \in LauncherStates /\ L'.at = "launch" /\ L'.version = L.version
      /\ L'.pending = inst_pending'
  BY <1>1, <1>3, <1>4 DEF LauncherStates, Steps
<1>6. inst_launcher' \in [{"l1"} -> LauncherStates]
  BY <1>1, <1>5 DEF L, InstallerInv, InstallerTypes
<1>7. InstallerTypes'
  BY <1>1, <1>2, <1>3, <1>6 DEF InstallerInv, InstallerTypes
<1>8. LauncherOK'
  BY <1>1, <1>5 DEF LauncherOK
<1>9. ASSUME inst_owed = "application" PROVE FilesOK' /\ StepOK'
  <2>1. inst_rollback \in Versions /\ inst_running = None
    BY <1>1, <1>9 DEF InstallerInv, StepOK
  <2>2. FilesOK'
    BY <1>1, <1>3, <2>1 DEF FilesOK
  <2> QED BY <1>1, <1>3, <1>5, <2>1, <2>2, InstallerAssumption DEF StepOK
<1> QED BY <1>2, <1>7, <1>8, <1>9 DEF InstallerInv

\* An install forgets what it kept, when what it installed is in place.
LEMMA ForgetKeeps == ASSUME InstallerInv, Installing!Forget("l1") PROVE InstallerInv'
<1>1. /\ L.at = "forget" /\ L.version \in Versions /\ inst_app = L.version
      /\ inst_rollback' = None /\ Installing!To("l1", "launch")
      /\ UNCHANGED <<inst_app, inst_receipt, inst_pending, inst_marker, inst_running, inst_tokens>>
  BY DEF Installing!Forget, Installing!At, L, InstallerInv, LauncherOK
<1>2. inst_owed # "nothing" /\ UNCHANGED inst_owed
  BY <1>1 DEF Installing!Forget, Installing!Owe, InstallerInv, NothingYet
<1>3. /\ inst_launcher' \in [{"l1"} -> LauncherStates] /\ L'.at = "launch"
      /\ L'.version = L.version /\ L'.pending = L.pending
  BY <1>1, GoesOn DEF Steps
<1>4. InstallerTypes' /\ LauncherOK'
  BY <1>1, <1>2, <1>3 DEF InstallerInv, InstallerTypes, LauncherOK
<1>5. ASSUME inst_owed = "application" PROVE FilesOK' /\ StepOK'
  <2>1. inst_pending = None /\ L.pending = None
    BY <1>1, <1>5 DEF InstallerInv, StepOK
  <2> QED BY <1>1, <1>3, <2>1 DEF FilesOK, StepOK, Activating
<1> QED BY <1>2, <1>4, <1>5 DEF InstallerInv

\* What is started is what is in place, with the token of what is pending.
LEMMA LaunchKeeps == ASSUME InstallerInv, Installing!Launch("l1") PROVE InstallerInv'
<1>1. /\ L.at = "launch" /\ L \in LauncherStates /\ Installing!Ends("l1")
      /\ UNCHANGED <<Files, inst_tokens, inst_owed>>
  BY DEF Installing!Launch, Installing!At, L, InstallerInv, InstallerTypes, Files
<1>2. /\ inst_launcher' \in [{"l1"} -> LauncherStates]
      /\ LauncherOK' /\ StepOK'
  BY <1>1, EndIsQuiet
<1>3. PICK token :
        /\ token = (IF L.healthy THEN L.pending.token ELSE 0)
        /\ inst_running' = IF /\ inst_app \in Versions /\ inst_running = None
                              /\ L.healthy => L.pending # None
                           THEN [version |-> inst_app, token |-> token] ELSE inst_running
  BY DEF Installing!Launch, L
<1>4. CASE UNCHANGED inst_running
  <2>1. UNCHANGED Others
    BY <1>1, <1>4 DEF Others
  <2>2. inst_owed # "nothing"
    BY <1>1 DEF InstallerInv, NothingYet
  <2> QED BY <1>2, <2>1, <2>2, OnlyTheLauncher
<1>5. CASE /\ inst_app \in Versions /\ (L.healthy => L.pending # None)
           /\ inst_running' = [version |-> inst_app, token |-> token]
  <2>1. L.pending # None => L.pending \in Activations
    BY <1>1 DEF LauncherStates
  <2>2. token \in Nat
    BY <1>1, <1>3, <1>5, <2>1 DEF Activations
  <2>3. /\ inst_running' \in Markers /\ inst_running'.version = inst_app
        /\ inst_running'.token = token
    BY <1>5, <2>2 DEF Markers
  <2>4. InstallerTypes'
    BY <1>1, <1>2, <2>3 DEF InstallerInv, InstallerTypes, Files
  <2>5. inst_owed # "nothing"
    BY <1>1 DEF InstallerInv, NothingYet
  <2>6. ASSUME inst_owed = "application" PROVE FilesOK'
    <3>1. FilesOK /\ StepOK
      BY <2>6 DEF InstallerInv
    <3>2. Activating /\ token # 0 => token = inst_pending.token /\ inst_app = inst_pending.target
      BY <1>1, <1>3, <1>5, <3>1 DEF StepOK, Activating
    <3>3. Activating => inst_app = inst_pending.target
      BY <1>1, <3>1 DEF StepOK, Activating
    <3>4. Activating => inst_rollback \in Versions \/ Installing!Healthy
      BY <3>1 DEF FilesOK
    <3>5. Activating' <=> Activating
      BY <1>1 DEF Activating, Files
    <3> QED BY <1>1, <1>5, <2>3, <3>2, <3>3, <3>4, <3>5, SameHealth DEF FilesOK, Files
  <2> QED BY <1>1, <1>2, <2>4, <2>5, <2>6 DEF InstallerInv
<1> QED BY <1>3, <1>4, <1>5

\* An install that failed removes what it activated, and puts back what it kept.
LEMMA RemoveActivatedKeeps ==
  ASSUME InstallerInv, Installing!RemoveActivated("l1")
  PROVE  InstallerInv'
<1>1. /\ L.at = "catch" /\ inst_app' = None /\ Installing!To("l1", "putBack")
      /\ UNCHANGED <<inst_rollback, inst_receipt, inst_pending, inst_marker, inst_running,
                     inst_tokens, inst_owed>>
  BY DEF Installing!RemoveActivated, Installing!At, L
<1>2. /\ inst_launcher' \in [{"l1"} -> LauncherStates] /\ L'.at = "putBack"
      /\ L'.version = L.version /\ L'.pending = L.pending /\ L'.exists = L.exists
      /\ L'.backedUp = L.backedUp
  BY <1>1, GoesOn DEF Steps
<1>3. InstallerTypes' /\ LauncherOK'
  BY <1>1, <1>2 DEF InstallerInv, InstallerTypes, LauncherOK
<1>4. inst_owed = "nothing" => NothingYet'
  BY <1>1, <1>2 DEF InstallerInv, NothingYet
<1>5. ASSUME inst_owed = "application" PROVE FilesOK' /\ StepOK'
  <2>1. /\ inst_pending = None /\ L.pending = None /\ inst_rollback \in Versions
        /\ inst_running = None
    BY <1>1, <1>5 DEF InstallerInv, StepOK
  <2> QED BY <1>1, <1>2, <2>1 DEF FilesOK, StepOK, Activating
<1> QED BY <1>1, <1>3, <1>4, <1>5 DEF InstallerInv

LEMMA PutBackKeeps == ASSUME InstallerInv, Installing!PutBack("l1") PROVE InstallerInv'
<1>1. /\ L.at = "putBack" /\ Installing!Ends("l1")
      /\ UNCHANGED <<inst_receipt, inst_pending, inst_marker, inst_running, inst_tokens,
                     inst_owed>>
  BY DEF Installing!PutBack, Installing!At, L
<1>2. /\ inst_launcher' \in [{"l1"} -> LauncherStates]
      /\ LauncherOK' /\ StepOK' /\ L'.at = "idle" /\ L'.pending = None
      /\ ~L'.exists /\ ~L'.backedUp
  BY <1>1, EndIsQuiet
<1>3. CASE UNCHANGED <<inst_app, inst_rollback>>
  <2>1. UNCHANGED Others
    BY <1>1, <1>3 DEF Others, Files
  <2>2. inst_owed = "nothing" => NothingYet'
    BY <1>1, <1>2, <1>3 DEF InstallerInv, NothingYet
  <2> QED BY <1>2, <2>1, <2>2, OnlyTheLauncher
<1>4. CASE /\ L.backedUp /\ inst_app = None
           /\ inst_app' = inst_rollback /\ inst_rollback' = None
  <2>1. InstallerTypes'
    BY <1>1, <1>2, <1>4 DEF InstallerInv, InstallerTypes
  <2>2. inst_owed # "nothing"
    BY <1>4 DEF InstallerInv, NothingYet
  <2>3. ASSUME inst_owed = "application" PROVE FilesOK'
    <3>1. inst_rollback \in Versions
      BY <1>4, <2>3, InstallerAssumption DEF InstallerInv, FilesOK
    <3> QED BY <1>1, <1>4, <3>1 DEF FilesOK, Activating
  <2> QED BY <1>1, <1>2, <2>1, <2>2, <2>3 DEF InstallerInv
<1> QED BY <1>3, <1>4 DEF Installing!PutBack, L

\* A launcher that ends may leave a broken directory, but never the last whole one.
LEMMA DiesKeeps == ASSUME InstallerInv, Installing!Dies("l1") PROVE InstallerInv'
<1>1. /\ Installing!Ends("l1")
      /\ UNCHANGED <<inst_receipt, inst_pending, inst_marker, inst_running, inst_tokens,
                     inst_owed>>
  BY DEF Installing!Dies
<1>2. /\ inst_launcher' \in [{"l1"} -> LauncherStates]
      /\ LauncherOK' /\ StepOK' /\ L'.at = "idle" /\ L'.pending = None
      /\ ~L'.exists /\ ~L'.backedUp
  BY <1>1, EndIsQuiet
<1>3. CASE UNCHANGED <<inst_app, inst_rollback>>
  <2>1. UNCHANGED Others
    BY <1>1, <1>3 DEF Others, Files
  <2>2. inst_owed = "nothing" => NothingYet'
    BY <1>1, <1>2, <1>3 DEF InstallerInv, NothingYet
  <2> QED BY <1>2, <2>1, <2>2, OnlyTheLauncher
<1>4. CASE inst_app' = Broken /\ inst_rollback' = inst_rollback /\ L.at \in {"rollBack", "catch"}
  <2>1. InstallerTypes'
    BY <1>1, <1>2, <1>4 DEF InstallerInv, InstallerTypes
  <2>2. inst_owed = "nothing" => NothingYet'
    BY <1>1, <1>2, <1>4 DEF InstallerInv, NothingYet
  <2>3. ASSUME inst_owed = "application" PROVE FilesOK'
    <3>1. inst_rollback \in Versions /\ inst_running = None
      BY <1>4, <2>3 DEF InstallerInv, FilesOK, StepOK
    <3>2. Activating => inst_pending.late /\ ~Installing!Healthy
      BY <1>4, <2>3 DEF InstallerInv, StepOK, Activating
    <3>3. (Installing!Healthy' <=> Installing!Healthy) /\ (Activating' <=> Activating)
      BY <1>1, <1>4 DEF Installing!Healthy, Activating
    <3> QED BY <1>1, <1>4, <3>1, <3>2, <3>3 DEF FilesOK
  <2> QED BY <1>1, <1>2, <2>1, <2>2, <2>3 DEF InstallerInv
<1>5. CASE inst_rollback' = Broken /\ inst_app' = inst_app /\ L.at \in {"confirm", "forget"}
  <2>1. InstallerTypes'
    BY <1>1, <1>2, <1>5 DEF InstallerInv, InstallerTypes
  <2>2. inst_owed # "nothing"
    BY <1>5 DEF InstallerInv, NothingYet
  <2>3. ASSUME inst_owed = "application" PROVE FilesOK'
    <3>1. CASE L.at = "confirm"
      <4>1. Activating /\ Installing!Healthy /\ inst_pending \in Activations
        BY <2>3, <3>1 DEF InstallerInv, InstallerTypes, StepOK, Activating
      <4>2. /\ inst_app = inst_pending.target /\ inst_app \in Versions
            /\ inst_running # None /\ inst_running.token # 0 =>
                 /\ inst_running.token = inst_pending.token
                 /\ inst_running.version = inst_pending.target
        BY <2>3, <4>1 DEF InstallerInv, FilesOK, Activations
      <4>3. Installing!Healthy'
        BY <1>1, <4>1 DEF Installing!Healthy
      <4> QED BY <1>1, <1>5, <4>2, <4>3 DEF FilesOK
    <3>2. CASE L.at = "forget"
      <4>1. inst_pending = None /\ inst_app \in Versions
        BY <2>3, <3>2 DEF InstallerInv, StepOK, LauncherOK
      <4> QED BY <1>1, <1>5, <4>1 DEF FilesOK, Activating
    <3> QED BY <1>5, <3>1, <3>2
  <2> QED BY <1>1, <1>2, <2>1, <2>2, <2>3 DEF InstallerInv
<1> QED BY <1>3, <1>4, <1>5 DEF Installing!Dies, L

\* The application reports that it is up.  The marker is that of the activation, if there is one.
LEMMA WriteMarkerKeeps == ASSUME InstallerInv, Installing!WriteMarker PROVE InstallerInv'
<1>1. /\ inst_running # None /\ inst_running.token # 0
      /\ inst_marker' = [version |-> inst_running.version, token |-> inst_running.token]
      /\ UNCHANGED <<inst_app, inst_rollback, inst_receipt, inst_pending, inst_launcher,
                     inst_running, inst_tokens>>
  BY DEF Installing!WriteMarker
<1>2. inst_owed # "nothing" /\ inst_owed' \in {"forgone", inst_owed}
  BY <1>1 DEF Installing!WriteMarker, InstallerInv, NothingYet
<1>3. inst_running \in Markers
  BY <1>1 DEF InstallerInv, InstallerTypes
<1>4. inst_marker' \in Markers
  BY <1>1, <1>3 DEF Markers
<1>5. InstallerTypes' /\ LauncherOK'
  BY <1>1, <1>2, <1>4 DEF InstallerInv, InstallerTypes, LauncherOK, L
<1>6. ASSUME inst_owed' = "application" PROVE FilesOK' /\ StepOK'
  <2>1. inst_owed = "application" /\ L.at \notin {"overdue", "rollBack", "rollBackApp"}
    BY <1>2, <1>6 DEF Installing!WriteMarker, L
  <2>2. FilesOK /\ StepOK
    BY <2>1 DEF InstallerInv
  <2>3. Activating => /\ inst_app = inst_pending.target
                      /\ inst_running.token = inst_pending.token
                      /\ inst_running.version = inst_pending.target
    BY <1>1, <2>2 DEF FilesOK
  <2>4. (Activating' <=> Activating) /\ (Activating => Installing!Healthy')
    BY <1>1, <2>3 DEF Activating, Installing!Healthy
  <2>5. FilesOK'
    BY <1>1, <2>2, <2>3, <2>4 DEF FilesOK
  <2>6. L' = L
    BY <1>1 DEF L
  <2>7. StepOK'
    BY <1>1, <2>1, <2>2, <2>4, <2>6 DEF StepOK
  <2> QED BY <2>5, <2>7
<1> QED BY <1>2, <1>5, <1>6 DEF InstallerInv, InstallerTypes

LEMMA ApplicationEndsKeeps == ASSUME InstallerInv, Installing!ApplicationEnds PROVE InstallerInv'
<1>1. /\ inst_running # None /\ inst_running' = None /\ L' = L
      /\ UNCHANGED <<Files, inst_launcher, inst_tokens, inst_owed>>
  BY DEF Installing!ApplicationEnds, Files, L
<1>2. inst_owed # "nothing"
  BY <1>1 DEF InstallerInv, NothingYet
<1>3. InstallerTypes' /\ LauncherOK'
  BY <1>1 DEF InstallerInv, InstallerTypes, LauncherOK, Files
<1>4. ASSUME inst_owed = "application" PROVE FilesOK' /\ StepOK'
  <2>1. (Installing!Healthy' <=> Installing!Healthy) /\ (Activating' <=> Activating)
    BY <1>1, SameHealth DEF Activating, Files
  <2>2. FilesOK'
    BY <1>1, <1>4, <2>1 DEF InstallerInv, FilesOK, Files
  <2>3. StepOK'
    BY <1>1, <1>4, <2>1 DEF InstallerInv, StepOK, Files
  <2> QED BY <2>2, <2>3
<1> QED BY <1>1, <1>2, <1>3, <1>4 DEF InstallerInv

LEMMA DeadlinePassesKeeps == ASSUME InstallerInv, Installing!DeadlinePasses PROVE InstallerInv'
<1>1. /\ inst_pending # None /\ ~inst_pending.late /\ L' = L
      /\ inst_pending' = [inst_pending EXCEPT !.late = TRUE]
      /\ UNCHANGED <<inst_app, inst_rollback, inst_receipt, inst_marker, inst_launcher,
                     inst_running, inst_tokens, inst_owed>>
  BY DEF Installing!DeadlinePasses, L
<1>2. inst_pending \in Activations
  BY <1>1 DEF InstallerInv, InstallerTypes
<1>3. /\ inst_pending' \in Activations /\ inst_pending'.late
      /\ inst_pending'.target = inst_pending.target /\ inst_pending'.token = inst_pending.token
  BY <1>1, <1>2 DEF Activations
<1>4. inst_pending' # None
  BY <1>3, InstallerAssumption DEF Activations
<1>5. inst_owed # "nothing"
  BY <1>1 DEF InstallerInv, NothingYet
<1>6. InstallerTypes' /\ LauncherOK'
  BY <1>1, <1>3 DEF InstallerInv, InstallerTypes, LauncherOK
<1>7. ASSUME inst_owed = "application" PROVE FilesOK' /\ StepOK'
  <2>1. (Installing!Healthy' <=> Installing!Healthy) /\ (Activating' <=> Activating)
    BY <1>1, <1>3, <1>4 DEF Installing!Healthy, Activating
  <2>2. FilesOK'
    BY <1>1, <1>3, <1>7, <2>1 DEF InstallerInv, FilesOK
  <2>3. StepOK'
    BY <1>1, <1>3, <1>4, <1>7, <2>1 DEF InstallerInv, StepOK
  <2> QED BY <2>2, <2>3
<1> QED BY <1>1, <1>5, <1>6, <1>7 DEF InstallerInv

LEMMA StepInstaller == InstallerInv /\ [Installing!Next]_inst_vars => InstallerInv'
<1> SUFFICES ASSUME InstallerInv, [Installing!Next]_inst_vars PROVE InstallerInv'
  OBVIOUS
<1>1. CASE UNCHANGED inst_vars
  <2>1. UNCHANGED Others /\ L' = L /\ inst_launcher' = inst_launcher
    BY <1>1 DEF inst_vars, Others, Files, L
  <2>2. inst_owed = "application" => StepOK'
    BY <2>1, SameHealth DEF InstallerInv, StepOK, Activating, Others, Files
  <2>3. inst_owed = "nothing" => NothingYet'
    BY <2>1 DEF InstallerInv, NothingYet, Others, Files
  <2>4. LauncherOK' /\ inst_launcher' \in [{"l1"} -> LauncherStates]
    BY <2>1 DEF InstallerInv, InstallerTypes, LauncherOK, Others, Files
  <2> QED BY <2>1, <2>2, <2>3, <2>4, OnlyTheLauncher
<1>2. ASSUME NEW version \in Versions,
             \/ Installing!Install("l1", version)
             \/ \E own \in Versions : Installing!Update("l1", own, version)
      PROVE  InstallerInv'
  BY <1>2, StartsKeeps DEF Installing!Install, Installing!Update
<1>3. ASSUME NEW checksVersion \in BOOLEAN, Installing!Inspect("l1", checksVersion)
      PROVE  InstallerInv'
  BY <1>3, InspectKeeps
<1>4. ASSUME \/ Installing!Reconcile("l1") \/ Installing!Confirm("l1")
             \/ Installing!ConfirmMarker("l1") \/ Installing!ConfirmPending("l1")
             \/ Installing!Overdue("l1") \/ Installing!RollBack("l1")
             \/ Installing!RollBackApp("l1") \/ Installing!RollBackReceipt("l1")
             \/ Installing!RollBackMarker("l1") \/ Installing!RollBackPending("l1")
      PROVE  InstallerInv'
  BY <1>4, ReconcileKeeps, ConfirmKeeps, OverdueKeeps, RollBackKeeps, RollBackAppKeeps,
     RolledBackKeeps
<1>5. ASSUME \/ Installing!Download("l1") \/ Installing!Extract("l1") \/ Installing!Look("l1")
             \/ Installing!BackUp("l1") \/ Installing!Activate("l1")
             \/ Installing!WriteReceipt("l1") \/ Installing!WritePending("l1")
             \/ Installing!Forget("l1") \/ Installing!Launch("l1")
      PROVE  InstallerInv'
  BY <1>5, StagesKeep, LookKeeps, BackUpKeeps, ActivateKeeps, WriteReceiptKeeps,
     WritePendingKeeps, ForgetKeeps, LaunchKeeps
<1>6. ASSUME \/ Installing!Fails("l1") \/ Installing!RemoveActivated("l1")
             \/ Installing!PutBack("l1") \/ Installing!Dies("l1")
             \/ Installing!WriteMarker \/ Installing!ApplicationEnds
             \/ Installing!DeadlinePasses
      PROVE  InstallerInv'
  BY <1>6, FailsKeeps, RemoveActivatedKeeps, PutBackKeeps, DiesKeeps, WriteMarkerKeeps,
     ApplicationEndsKeeps, DeadlinePassesKeeps
<1> QED BY <1>1, <1>2, <1>3, <1>4, <1>5, <1>6 DEF Installing!Next

\* Whatever versions there are, however many updates are activated: with one launcher at a time, a
\* whole application is left at every moment after the first install, in its place or kept for a
\* rollback, wherever installs, updates and rollbacks fail or end; but for a healthy start
\* that is reported in the instant it is found overdue.
THEOREM InstalledApplicationSurvives == MCSpec => []AppSurvives
<1>1. MCInit => InstallerInv
  BY InitInstaller DEF MCInit
<1>2. InstallerInv /\ [MCNext]_MCVars => InstallerInv'
  <2> SUFFICES ASSUME InstallerInv, [MCNext]_MCVars PROVE InstallerInv'
    OBVIOUS
  <2>1. [Installing!Next]_inst_vars
    BY DEF MCNext, MCVars
  <2> QED BY <2>1, StepInstaller
<1>3. InstallerInv => AppSurvives
  BY DEF InstallerInv, FilesOK, AppSurvives, Installing!AppSurvives
<1> QED
  BY <1>1, <1>2, <1>3, PTL DEF MCSpec
=============================================================================
