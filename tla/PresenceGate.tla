----------------------------- MODULE PresenceGate -----------------------------
(***************************************************************************)
(* "Are you still there?": the gate in the utility process that holds the  *)
(* agent back after a minute of active work, the supervisor's copy of its  *)
(* prompt, and the approvals and inputs the two must not let through.      *)
(* src/runtime/presence.ts, agent-session.ts, index.ts,                    *)
(* src/main/runtime-supervisor.ts, task-service.ts                         *)
(*                                                                         *)
(* One turn from its start request to its end.  Tools run one after the    *)
(* other, so that there is one boundary and one approval at a time.  Time  *)
(* passes in Tick, alike for the two processes (Date.now is taken to be    *)
(* monotonic), and as fast as it likes: timers and messages may be late.   *)
(* Continuations of a promise run before the next message or timer.        *)
(***************************************************************************)
EXTENDS Integers, Sequences

CONSTANTS Limit,         \* 60 s
          Hold,          \* 250 ms, the age at which a prompt may be answered
          MaxPrompts,    \* bound: prompts of the turn
          MaxApprovals,  \* bound: approvals of the turn
          MaxPost        \* bound: messages waiting for the child

ASSUME PresenceAssumption ==
  /\ Limit \in Nat \ {0} /\ Hold \in Nat
  /\ MaxPrompts \in Nat /\ MaxApprovals \in Nat /\ MaxPost \in Nat

VARIABLES
  on,            \* the gate has a task
  pending,       \* its prompt, 0 without one
  left,          \* deadline - clock, or remaining while paused
  paused,
  sinceIssue,    \* age of the prompt for the gate, up to Hold
  prompts,       \* prompts issued
  agent,         \* "working", "blocked" or "passed" at a boundary, "asking",
                 \* "decided", "over"
  woken,         \* the boundary's promise is resolved
  stopped,       \* the session was told to stop
  asked,         \* approvals requested
  current,       \* the supervisor has the turn
  seen,          \* active.presence: its prompt, 0 without one
  acknowledged,  \* active.presence.acknowledged
  sinceSeen,     \* its age for the supervisor, up to Hold
  row,           \* approval rows
  mail,          \* messages on their way to the main process
  post,          \* messages on their way to the child
  worked         \* history: active time since the user was last known present

gate == <<on, pending, left, paused, sinceIssue, prompts>>
session == <<agent, woken, stopped, asked>>
main == <<current, seen, acknowledged, sinceSeen, row>>
vars == <<gate, session, main, mail, post, worked>>

Message(type, n) == [type |-> type, of |-> n]
Attention == Message("attention_required", prompts + 1)
Cleared == Message("presence.cleared", 0)

\* run(): presence.start
Init ==
  /\ on = TRUE /\ pending = 0 /\ left = Limit /\ paused = FALSE
  /\ sinceIssue = 0 /\ prompts = 0
  /\ agent = "working" /\ woken = FALSE /\ stopped = FALSE /\ asked = 0
  /\ current = TRUE /\ seen = 0 /\ acknowledged = FALSE /\ sinceSeen = 0
  /\ row = [a \in 1..MaxApprovals |-> "none"]
  /\ mail = <<>> /\ post = <<>> /\ worked = 0

\* The clock of active work runs.
Counting == on /\ pending = 0 /\ ~paused
Older(age) == IF age < Hold THEN age + 1 ELSE age

Tick ==
  /\ sinceIssue' = Older(sinceIssue) /\ sinceSeen' = Older(sinceSeen)
  /\ IF Counting /\ (left > 1 \/ prompts < MaxPrompts)
     THEN /\ left' = IF left = 0 THEN 0 ELSE left - 1
          /\ worked' = IF worked > Limit THEN worked ELSE worked + 1
     ELSE UNCHANGED <<left, worked>>
  /\ UNCHANGED <<on, pending, paused, prompts, session, current, seen, acknowledged,
                 row, mail, post>>

-----------------------------------------------------------------------------
(* The gate                                                                 *)

Overdue == Counting /\ left = 0

\* The prompt after check(), the messages check() has posted, and its effect on
\* the rest: every operation of the gate begins with it, the getter included.
Prompt == IF Overdue THEN prompts + 1 ELSE pending
Checked == IF Overdue THEN Append(mail, Attention) ELSE mail
Issued ==
  /\ prompts' = IF Overdue THEN prompts + 1 ELSE prompts
  /\ sinceIssue' = IF Overdue THEN 0 ELSE sinceIssue

\* No continuation is due in the child.
ChildIdle == ~woken /\ agent \notin {"passed", "decided"}

TimerFires ==
  /\ ChildIdle /\ Overdue
  /\ pending' = Prompt /\ Issued /\ mail' = Checked
  /\ UNCHANGED <<on, left, paused, session, main, post, worked>>

\* boundary(), of the next request, tool, operation, compaction or approval, or
\* its loop when it is woken.
Boundary ==
  /\ ~stopped
  /\ agent = "working" \/ (agent = "blocked" /\ woken)
  /\ pending' = Prompt /\ Issued /\ mail' = Checked
  /\ agent' = IF Prompt = 0 THEN "passed" ELSE "blocked"
  /\ woken' = FALSE
  /\ UNCHANGED <<on, left, paused, stopped, asked, main, post, worked>>

Proceeds ==
  /\ agent = "passed" /\ agent' = "working"
  /\ UNCHANGED <<gate, woken, stopped, asked, main, mail, post, worked>>

\* Mutant: the time of an approval counts as work.
AsksWithoutPausing ==
  /\ agent = "passed" /\ asked < MaxApprovals
  /\ pending' = Prompt /\ Issued
  /\ asked' = asked + 1 /\ agent' = "asking"
  /\ mail' = Append(Checked, Message("approval.request", asked + 1))
  /\ UNCHANGED <<on, left, paused, woken, stopped, main, post, worked>>

\* requestApproval behind its boundary: pause(), then the request is posted.
Asks ==
  /\ agent = "passed" /\ asked < MaxApprovals
  /\ pending' = Prompt /\ Issued
  /\ paused' = TRUE
  /\ asked' = asked + 1 /\ agent' = "asking"
  /\ mail' = Append(Checked, Message("approval.request", asked + 1))
  /\ UNCHANGED <<on, left, woken, stopped, main, post, worked>>

\* Mutant: resume() starts a new minute.
ResumesAfresh ==
  /\ agent = "decided" /\ agent' = "working"
  /\ paused' = FALSE /\ left' = Limit
  /\ UNCHANGED <<on, pending, sinceIssue, prompts, woken, stopped, asked, main,
                 mail, post, worked>>

\* The decision's promise is resolved: resume().
Resumes ==
  /\ agent = "decided" /\ agent' = "working"
  /\ paused' = FALSE
  /\ UNCHANGED <<on, pending, left, sinceIssue, prompts, woken, stopped, asked,
                 main, mail, post, worked>>

\* The agent ends, aborted or by itself: the end is posted, then the gate stops.
Ends ==
  /\ agent = "working" /\ agent' = "over"
  /\ on' = FALSE /\ pending' = 0 /\ paused' = FALSE
  /\ mail' = mail \o <<Message("end", 0)>> \o (IF pending # 0 THEN <<Cleared>> ELSE <<>>)
  /\ UNCHANGED <<left, sinceIssue, prompts, woken, stopped, asked, main, post, worked>>

-----------------------------------------------------------------------------
(* handleRequest of the next message for the child                          *)

Receives(type) ==
  /\ ChildIdle /\ post # <<>> /\ Head(post).type = type
  /\ post' = Tail(post)

\* Mutant: acknowledge() does not wake the boundary.
AcknowledgesAsleep ==
  /\ Receives("presence-ack")
  /\ IF pending # 0 /\ pending = Head(post).of /\ sinceIssue >= Hold
     THEN /\ pending' = 0 /\ left' = Limit
          /\ mail' = Append(mail, Cleared)
          /\ worked' = 0
          /\ UNCHANGED <<sinceIssue, prompts>>
     ELSE /\ pending' = Prompt /\ Issued /\ mail' = Checked
          /\ UNCHANGED <<left, worked>>
  /\ UNCHANGED <<on, paused, agent, woken, stopped, asked, main>>

\* acknowledge(): only of the pending prompt, and not of one just issued.
Acknowledges ==
  /\ Receives("presence-ack")
  /\ IF pending # 0 /\ pending = Head(post).of /\ sinceIssue >= Hold
     THEN /\ pending' = 0 /\ left' = Limit
          /\ mail' = Append(mail, Cleared)
          /\ woken' = (agent = "blocked")
          /\ worked' = 0
          /\ UNCHANGED <<sinceIssue, prompts>>
     ELSE /\ pending' = Prompt /\ Issued /\ mail' = Checked
          /\ UNCHANGED <<left, woken, worked>>
  /\ UNCHANGED <<on, paused, agent, stopped, asked, main>>

\* resolveApproval: behind a prompt, or when nobody waits for it, the decision is
\* an error that is only reported.
TakesDecision ==
  /\ Receives("approval")
  /\ pending' = Prompt /\ Issued /\ mail' = Checked
  /\ agent' = IF Prompt = 0 /\ agent = "asking" /\ asked = Head(post).of
              THEN "decided" ELSE agent
  /\ UNCHANGED <<on, left, paused, woken, stopped, asked, main, worked>>

\* steer, queueFollowUp and clearQueue: behind a prompt they are refused likewise.
TakesInput ==
  /\ Receives("input")
  /\ pending' = Prompt /\ Issued /\ mail' = Checked
  /\ UNCHANGED <<on, left, paused, session, main, worked>>

\* stop(): the gate lets go, boundaries throw, the approval is denied.
Stops ==
  /\ Receives("stop")
  /\ stopped' = TRUE
  /\ on' = FALSE /\ pending' = 0 /\ paused' = FALSE
  /\ mail' = IF pending # 0 THEN Append(mail, Cleared) ELSE mail
  /\ agent' = IF agent = "blocked" THEN "working" ELSE
              IF agent = "asking" THEN "decided" ELSE agent
  /\ UNCHANGED <<left, sinceIssue, prompts, woken, asked, main, worked>>

ChildReceives == Acknowledges \/ TakesDecision \/ TakesInput \/ Stops

-----------------------------------------------------------------------------
(* The supervisor                                                           *)

\* active.presence = undefined
PresenceForgotten == seen' = 0 /\ acknowledged' = FALSE

\* handleRuntimeEvent of the next message, while the turn is current; at its end
\* the pending approvals are denied.
Hears ==
  /\ mail # <<>> /\ mail' = Tail(mail)
  /\ LET message == Head(mail) IN
     \/ /\ ~current
        /\ UNCHANGED main
     \/ /\ current /\ message.type = "attention_required"
        /\ seen' = message.of /\ acknowledged' = FALSE /\ sinceSeen' = 0
        /\ UNCHANGED <<current, row>>
     \/ /\ current /\ message.type = "presence.cleared"
        /\ PresenceForgotten
        /\ UNCHANGED <<current, sinceSeen, row>>
     \/ /\ current /\ message.type = "approval.request"
        /\ row' = [row EXCEPT ![message.of] = "pending"]
        /\ UNCHANGED <<current, seen, acknowledged, sinceSeen>>
     \/ /\ current /\ message.type = "end"
        /\ current' = FALSE
        /\ row' = [a \in 1..MaxApprovals |-> IF row[a] = "pending" THEN "denied" ELSE row[a]]
        /\ UNCHANGED <<seen, acknowledged, sinceSeen>>
  /\ UNCHANGED <<gate, session, post, worked>>

CanPost == current /\ Len(post) < MaxPost

\* acknowledgePresence, once for a prompt and not before it is Hold old.
AcknowledgePresence ==
  /\ CanPost /\ seen # 0 /\ ~acknowledged
  /\ sinceSeen >= Hold
  /\ acknowledged' = TRUE
  /\ post' = Append(post, Message("presence-ack", seen))
  /\ UNCHANGED <<gate, session, current, seen, sinceSeen, row, mail, worked>>

\* TaskService.resolveApproval: the decision is recorded, then posted.
ResolveApproval(a) ==
  /\ CanPost /\ row[a] = "pending"
  /\ seen = 0
  /\ row' = [row EXCEPT ![a] = "decided"]
  /\ post' = Append(post, Message("approval", a))
  /\ UNCHANGED <<gate, session, current, seen, acknowledged, sinceSeen, mail, worked>>

\* steer, queueFollowUp or clearQueue of a running turn.
Input ==
  /\ CanPost /\ seen = 0
  /\ post' = Append(post, Message("input", 0))
  /\ UNCHANGED <<gate, session, main, mail, worked>>

\* stop: the pending approvals are denied first.
Stop ==
  /\ CanPost
  /\ row' = [a \in 1..MaxApprovals |-> IF row[a] = "pending" THEN "denied" ELSE row[a]]
  /\ post' = Append(post, Message("stop", 0))
  /\ UNCHANGED <<gate, session, current, seen, acknowledged, sinceSeen, mail, worked>>

-----------------------------------------------------------------------------
Next ==
  \/ Tick \/ TimerFires \/ Boundary \/ Proceeds \/ Asks \/ Resumes \/ Ends
  \/ Acknowledges \/ TakesDecision \/ TakesInput \/ Stops
  \/ Hears \/ AcknowledgePresence \/ Input \/ Stop
  \/ \E a \in 1..MaxApprovals : ResolveApproval(a)

Spec == Init /\ [][Next]_vars

-----------------------------------------------------------------------------
\* Types: the gate's counters are in their ranges, and only a prompt that the
\* supervisor knows can be acknowledged.
TypeOK ==
  /\ on \in BOOLEAN /\ paused \in BOOLEAN /\ woken \in BOOLEAN /\ stopped \in BOOLEAN
  /\ prompts \in 0..MaxPrompts /\ pending \in 0..prompts
  /\ left \in 0..Limit /\ worked \in 0..(Limit + 1)
  /\ sinceIssue \in 0..Hold /\ sinceSeen \in 0..Hold
  /\ agent \in {"working", "blocked", "passed", "asking", "decided", "over"}
  /\ asked \in 0..MaxApprovals
  /\ current \in BOOLEAN /\ seen \in 0..prompts
  /\ acknowledged \in BOOLEAN /\ (acknowledged => seen # 0)
  /\ row \in [1..MaxApprovals -> {"none", "pending", "decided", "denied"}]
  /\ Len(post) <= MaxPost

\* "another minute": nothing new is begun after Limit of active work without an
\* acknowledgement, however the timer is delayed; waits for approvals are not
\* counted, and do not start the minute again.
NoWorkPastDeadline ==
  [][agent # "passed" /\ agent' = "passed" => worked < Limit]_vars

\* A decision that is recorded in the database is taken by the tool that waits
\* for it: no prompt can get in front of it on its way, so that the gate, which
\* refuses decisions behind a prompt, never loses one.
DecisionInFlightIsAwaited ==
  \A i \in 1..Len(post) : post[i].type = "approval" =>
    \/ stopped \/ \E j \in 1..(i - 1) : post[j].type = "stop"
    \/ agent = "asking" /\ asked = post[i].of /\ Prompt = 0

\* The two processes measure the age of a prompt each for itself.  What the
\* supervisor lets through, and marks as acknowledged for good, the gate accepts.
AckInFlightIsAccepted ==
  \A i \in 1..Len(post) : post[i].type = "presence-ack" =>
    \/ ~on \/ \E j \in 1..(i - 1) : post[j].type = "stop"
    \/ pending = post[i].of /\ sinceIssue >= Hold

\* The supervisor's copy is the gate's prompt when no message is on its way.
CopiesAgree == mail = <<>> /\ current => seen = pending

\* Types hold, and the gate in the worker and the supervisor's copy of it agree on
\* what has been asked and answered, whatever is on its way between the two.
SessionAgrees ==
  TypeOK /\ DecisionInFlightIsAwaited /\ AckInFlightIsAccepted /\ CopiesAgree

\* Inputs that were accepted for a running turn are retained: none reaches the
\* session behind a prompt, where it would be refused.
AcceptedInputIsTaken ==
  [][TakesInput => Prompt = 0]_vars

\* Messages are delivered, continuations run, time passes, and the user answers
\* the prompts.
FairSpec ==
  /\ Spec
  /\ WF_vars(Tick) /\ WF_vars(Hears) /\ WF_vars(ChildReceives)
  /\ WF_vars(agent = "blocked" /\ Boundary) /\ WF_vars(AcknowledgePresence)

\* An agent held back at a boundary goes on once the user has answered: no
\* acknowledgement is lost between the two copies, and none fails to wake it.
BoundaryReleased == agent = "blocked" ~> agent # "blocked"
=============================================================================
