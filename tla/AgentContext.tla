----------------------------- MODULE AgentContext -----------------------------
(***************************************************************************)
(* What the model is told: the messages of the agent, their compaction     *)
(* (compactMessages in src/runtime/agent-session.ts, context-budget.ts)    *)
(* and the history from which the next turn rebuilds them                  *)
(* (historyToMessages, of the journal in database.ts).                     *)
(*                                                                         *)
(* The agent loop is the library's, as agent-session.ts uses it: one       *)
(* steering message is taken before a request, one follow-up when the      *)
(* agent would stop.  A message is known by its number, and weighs as many *)
(* tokens as it has; a summary weighs one and covers a set of messages.    *)
(***************************************************************************)
EXTENDS Naturals, Sequences, SequencesExt, FiniteSets, FiniteSetsExt

CONSTANTS MaxMessages,  \* bound: messages of a chat
          MaxCompactions, \* bound: compactions of a turn
          Keep,         \* KEEP_RECENT_TOKENS
          Threshold     \* compactionThreshold without the fixed part

\* A summary is a message that covers others.
Message(id, role, tokens) == [id |-> id, role |-> role, tokens |-> tokens, covers |-> {}]
Summary(ids) == [id |-> 0, role |-> "summary", tokens |-> 1, covers |-> ids]

VARIABLES
  journal,   \* entries of the session, in their order: a message or a compaction
  context,   \* the agent's messages, or <<>> between turns
  request,   \* the messages of the request under way
  state,     \* ContextCompactionState: summary, summarizedSourceCount, signature
  waiting,   \* steering messages and follow-ups the loop has not taken yet
  stage,     \* "idle", "loop", "summarizing", "model", "tool"
  left       \* compactions left, messages used

vars == <<journal, context, request, state, waiting, stage, left>>

Fresh == [covers |-> {}, count |-> 0, last |-> 0]

Init ==
  /\ journal = <<>> /\ context = <<>> /\ request = <<>> /\ state = Fresh
  /\ waiting = <<>> /\ stage = "idle"
  /\ left = [compactions |-> MaxCompactions, next |-> 1]

-----------------------------------------------------------------------------
(* Compaction. *)
Tokens(ms) == FoldLeft(LAMBDA n, m : n + m.tokens, 0, ms)
Covered(ms) == UNION ({ms[i].covers : i \in DOMAIN ms} \cup {{ms[i].id} : i \in DOMAIN ms}) \ {0}

\* messageUnits: an answer and the results of its calls are one; the first of each.
\* A call and its result have one number between them.
UnitStarts(ms) ==
  {i \in DOMAIN ms : ~(ms[i].role = "result" /\ i > 1 /\ ms[i - 1].role = "call"
                         /\ ms[i - 1].id = ms[i].id)}

\* Mutant: the boundary falls wherever enough is kept.
RecentMessages(ms, tokens) ==
  LET heavy == {i \in DOMAIN ms : Tokens(SubSeq(ms, i, Len(ms))) >= tokens}
  IN  IF Cardinality(UnitStarts(ms)) <= 1 \/ heavy = {} THEN 0 ELSE Max(heavy) - 1

\* recentBoundary: how many messages go, so that the units kept weigh enough.
RecentBoundary(ms, tokens) ==
  LET heavy == {i \in UnitStarts(ms) : Tokens(SubSeq(ms, i, Len(ms))) >= tokens}
  IN  IF Cardinality(UnitStarts(ms)) <= 1 \/ heavy = {} THEN 0 ELSE Max(heavy) - 1

\* The state is of these messages if the last one it has summarized is where it was.
Matches(s, ms, boundary) ==
  /\ s.count <= boundary
  /\ s.count > 0 => ms[s.count].id = s.last /\ ms[s.count].role # "summary"

\* updateSummary, and the state after it: the summarizer gets the summary so far and
\* the messages after those it covers; when it fails, a summary is put together.
Summarized(s, ms, boundary) ==
  LET base == IF Matches(s, ms, boundary) THEN s ELSE Fresh
  IN  [covers |-> base.covers \cup Covered(SubSeq(ms, base.count + 1, boundary)),
       count |-> boundary, last |-> ms[boundary].id]

\* A second, tighter boundary when the first leaves too much.
Compacted(s, ms) ==
  LET first == RecentBoundary(ms, Keep)
      one == Summarized(s, ms, first)
      after == 1 + Tokens(SubSeq(ms, first + 1, Len(ms)))
      tighter == RecentBoundary(ms, IF Threshold > 3 THEN Threshold - 2 ELSE 1)
      two == IF after > Threshold /\ tighter > first THEN Summarized(one, ms, tighter) ELSE one
  IN  [state |-> two,
       messages |-> <<Summary(two.covers)>> \o SubSeq(ms, two.count + 1, Len(ms))]

-----------------------------------------------------------------------------
(* The journal, and the messages a turn starts with. *)
Said(m) == [kind |-> "message", messages |-> <<m>>]
Checkpoint(ms) == [kind |-> "compaction", messages |-> ms]

\* Mutant: what was said before the last compaction is forgotten with its messages.
HistoryAfter(entries) ==
  LET points == {i \in DOMAIN entries : entries[i].kind = "compaction"}
      from == IF points = {} THEN 1 ELSE Max(points) + 1
  IN  FlattenSeq([i \in 1 .. Len(entries) + 1 - from |-> entries[from + i - 1].messages])

\* historyToMessages: the messages of the last compaction and what was said after it.
History(entries) ==
  LET points == {i \in DOMAIN entries : entries[i].kind = "compaction"}
      from == IF points = {} THEN 1 ELSE Max(points)
  IN  FlattenSeq([i \in 1 .. Len(entries) + 1 - from |-> entries[from + i - 1].messages])

-----------------------------------------------------------------------------
Number(n) == left.next <= MaxMessages /\ n = left.next
Used == left' = [left EXCEPT !.next = @ + 1]

\* TaskService.start reads the history and journals the input; the session begins.
StartTurn(n) ==
  /\ stage = "idle" /\ Number(n) /\ Used
  /\ LET m == Message(n, "user", 1)
     IN  /\ journal' = Append(journal, Said(m))
         /\ context' = Append(History(journal), m)
  /\ state' = Fresh /\ stage' = "loop"
  /\ UNCHANGED <<request, waiting>>

\* steer, queueFollowUp: journaled when they are said, taken by the loop later.
Say(n, how) ==
  /\ stage # "idle" /\ Number(n) /\ Used
  /\ LET m == Message(n, "user", 1)
     IN  /\ journal' = Append(journal, Said(m))
         /\ waiting' = Append(waiting, [m |-> m, how |-> how])
  /\ UNCHANGED <<context, request, state, stage>>

Waits(how) == \E i \in DOMAIN waiting : waiting[i].how = how

Taken(how) ==
  LET i == CHOOSE j \in DOMAIN waiting :
             waiting[j].how = how /\ \A k \in 1 .. j - 1 : waiting[k].how # how
  IN  /\ context' = Append(context, waiting[i].m)
      /\ waiting' = RemoveAt(waiting, i)

TakeSteering ==
  /\ stage = "loop" /\ Waits("steer") /\ Last(context).role # "user"
  /\ Taken("steer")
  /\ UNCHANGED <<journal, request, state, stage, left>>

\* transformContext: what fits goes out as it is.
Fits ==
  /\ stage = "loop" /\ (Waits("steer") => Last(context).role = "user")
  /\ Tokens(context) <= Threshold
  /\ request' = context /\ stage' = "model"
  /\ UNCHANGED <<journal, context, state, waiting, left>>

\* It does not, and the summarizer is asked; more may be said while it answers.
Compact ==
  /\ stage = "loop" /\ (Waits("steer") => Last(context).role = "user")
  /\ Tokens(context) > Threshold
  /\ IF RecentBoundary(context, Keep) = 0
     THEN request' = context /\ stage' = "model"
     ELSE request' = request /\ stage' = "summarizing"
  /\ UNCHANGED <<journal, context, state, waiting, left>>

Summarize ==
  /\ stage = "summarizing" /\ left.compactions > 0
  /\ LET c == Compacted(state, context)
     IN  /\ state' = c.state /\ request' = c.messages
         /\ journal' = Append(journal, Checkpoint(c.messages))
  /\ stage' = "model" /\ left' = [left EXCEPT !.compactions = @ - 1]
  /\ UNCHANGED <<context, waiting>>

\* compactForInputLimit: the router has refused the request for its size, and what is
\* compacted is the request, with the state of the agent's messages.
CompactRequest ==
  /\ stage = "model" /\ left.compactions > 0 /\ RecentBoundary(request, Keep) > 0
  /\ LET c == Compacted(state, request)
     IN  /\ state' = c.state /\ request' = c.messages
         /\ journal' = Append(journal, Checkpoint(c.messages))
  /\ left' = [left EXCEPT !.compactions = @ - 1]
  /\ UNCHANGED <<context, waiting, stage>>

\* An answer that calls a tool, and the result, which may be large.
Calls(n) ==
  /\ stage = "model" /\ Number(n) /\ Used
  /\ LET m == Message(n, "call", 1)
     IN journal' = Append(journal, Said(m)) /\ context' = Append(context, m)
  /\ stage' = "tool"
  /\ UNCHANGED <<request, state, waiting>>

Result(tokens) ==
  /\ stage = "tool"
  /\ LET m == Message(Last(context).id, "result", tokens)
     IN journal' = Append(journal, Said(m)) /\ context' = Append(context, m)
  /\ stage' = "loop"
  /\ UNCHANGED <<request, state, waiting, left>>

\* An answer that calls nothing: the loop takes what waits, or stops.
Answers(n) ==
  /\ stage = "model" /\ Number(n) /\ Used
  /\ LET m == Message(n, "answer", 1)
     IN  /\ journal' = Append(journal, Said(m))
         /\ IF Waits("steer") \/ ~Waits("follow-up")
            THEN context' = Append(context, m) /\ UNCHANGED waiting
            ELSE LET i == CHOOSE j \in DOMAIN waiting : waiting[j].how = "follow-up"
                            /\ \A k \in 1 .. j - 1 : waiting[k].how # "follow-up"
                 IN  /\ context' = context \o <<m, waiting[i].m>>
                     /\ waiting' = RemoveAt(waiting, i)
  /\ stage' = IF waiting = <<>> THEN "idle" ELSE "loop"
  /\ UNCHANGED <<request, state>>

\* The turn is stopped or fails, or its process ends, anywhere.
Ends ==
  /\ stage # "idle" /\ stage' = "idle" /\ waiting' = <<>>
  /\ UNCHANGED <<journal, context, request, state, left>>

Next ==
  \/ TakeSteering \/ Fits \/ Compact \/ Summarize \/ CompactRequest \/ Ends
  \/ \E tokens \in {1, 2} : Result(tokens)
  \/ \E n \in 1 .. MaxMessages :
       \/ StartTurn(n) \/ Calls(n) \/ Answers(n)
       \/ \E how \in {"steer", "follow-up"} : Say(n, how)

Spec == Init /\ [][Next]_vars

-----------------------------------------------------------------------------
\* Every request tells the model all the agent knows, each message once, as it is or
\* in the one summary at the head, and no result goes without the call before it.
RequestIsWhole ==
  stage = "model" =>
    LET tail == SelectSeq(request, LAMBDA m : m.role # "summary")
    IN  /\ Covered(request) = Covered(context)
        /\ IsSuffix(tail, context)
        /\ \A i \in DOMAIN request : request[i].role = "summary" => i = 1
        /\ \A i \in 2 .. Len(context) : i \in UnitStarts(context) \/ Len(tail) # Len(context) - i + 1

\* What the agent has said and done is part of what every later turn starts with,
\* as it is or in a summary, whenever the turn ended.
WorkIsRemembered ==
  \A i \in DOMAIN context :
    context[i].role # "user" => Covered(<<context[i]>>) \subseteq Covered(History(journal))
=============================================================================
