----------------------------- MODULE RouterStream -----------------------------
(***************************************************************************)
(* One request to the model, as the agent loop makes it: the provider's    *)
(* stream function (src/runtime/pi-provider.ts), the client under it       *)
(* (router-client.ts, bounded-response.ts) and the parser of the answer    *)
(* (ndjson.ts).                                                            *)
(*                                                                         *)
(* The answer is a script of lines; a line travels as three units, two     *)
(* halves of its text and its end.  What one chunk brings is consumed      *)
(* without an interruption: nothing in the loop over it waits for a task   *)
(* of the event loop.                                                      *)
(***************************************************************************)
EXTENDS Naturals, Sequences, SequencesExt, FiniteSets

CONSTANTS MaxLines,      \* bound: lines of an answer
          CallLimit,     \* MAX_ROUTER_TOOL_CALLS
          None

Call(id, args) == [type |-> "call", id |-> id, args |-> args]
Plain(type) == [type |-> type, id |-> None, args |-> None]

\* "bad" does not parse; "big" is a line over a limit of the parser other than that of
\* the calls: its size, the number of events, the size of all arguments.
Lines ==
  {Plain(t) : t \in {"text", "settlement", "done", "error", "bad", "big"}}
    \cup {Call("t1", "x"), Call("t1", "y"), Call("t2", "x")}

Scripts == UNION {[1 .. n -> Lines] : n \in 1 .. MaxLines}

Replies ==
  [kind : {"ok"}, script : Scripts]
    \cup [kind : {"redirect", "nonce", "refused", "input_limit", "unreachable"}, script : {<<>>}]

VARIABLES
  stage,     \* where the request is; "ended" and "rejected" are final
  attempt,   \* retries made for an input limit
  proofs,    \* protected requests sent in this attempt: the second has the nonce
  reply,     \* what the router has decided, before the client has seen it
  runs,      \* how often the router began an inference
  arrived,   \* units of the answer that have come
  calls,     \* the calls the parser knows
  consumed,  \* an event of this attempt reached the provider
  message,   \* the blocks of the answer so far, and the settlements reported
  result,    \* what the agent loop gets: "done", "error" or "aborted", and the blocks
  aborted    \* the caller's signal

vars == <<stage, attempt, proofs, reply, runs, arrived, calls, consumed, message, result, aborted>>
body == <<arrived, calls, consumed, message>>

Nothing == [blocks |-> <<>>, settled |-> 0]

Init ==
  /\ stage = "budget" /\ attempt = 0 /\ proofs = 0 /\ reply = None /\ runs = 0
  /\ arrived = 0 /\ calls = {} /\ consumed = FALSE /\ message = Nothing
  /\ result = None /\ aborted = FALSE

-----------------------------------------------------------------------------
(* The end: what was displayed is kept, the calls of a failed turn are not. *)
\* Mutant: a failed turn hands over its calls.
KeptWithCalls(blocks) == SelectSeq(blocks, LAMBDA b : b # None)

Kept(blocks) == SelectSeq(blocks, LAMBDA b : b.type # "call")

Finish(kind, m) ==
  /\ stage' = "ended"
  /\ message' = m
  /\ result' = [kind |-> kind, blocks |-> IF kind = "done" THEN m.blocks ELSE Kept(m.blocks)]

Fail(m) == Finish(IF aborted THEN "aborted" ELSE "error", m)
FailNow ==
  /\ Fail(message)
  /\ UNCHANGED <<attempt, proofs, reply, runs, arrived, calls, consumed, aborted>>

\* An error of the client: a refusal for the size of the input is tried once more,
\* if nothing has been consumed.
MayRetry(kind) == attempt = 0 /\ ~consumed /\ kind = "input_limit" /\ ~aborted

Thrown(kind) ==
  IF MayRetry(kind)
  THEN /\ stage' = "compacting"
       /\ UNCHANGED <<attempt, proofs, reply, runs, body, result, aborted>>
  ELSE FailNow

-----------------------------------------------------------------------------
(* Until the headers. *)
Overflow == stage = "budget" /\ FailNow

Fits ==
  /\ stage = "budget" /\ stage' = "boundary"
  /\ UNCHANGED <<attempt, proofs, reply, runs, body, result, aborted>>

\* The presence gate lets the request pass, or throws when the turn is stopped.
Pass ==
  /\ stage = "boundary" /\ ~aborted /\ stage' = "authorize"
  /\ UNCHANGED <<attempt, proofs, reply, runs, body, result, aborted>>

Barred == stage = "boundary" /\ aborted /\ FailNow

\* authorize, then the request, of which the router makes what it will.
Send ==
  /\ stage = "authorize" /\ ~aborted
  /\ \E r \in Replies :
       /\ reply' = r
       /\ runs' = IF r.kind = "ok" THEN runs + 1 ELSE runs
  /\ stage' = "headers" /\ proofs' = proofs + 1
  /\ UNCHANGED <<attempt, body, result, aborted>>

AuthorizeFails == stage = "authorize" /\ Thrown("authorize")

Headers ==
  /\ stage = "headers" /\ ~aborted
  /\ \/ /\ reply.kind = "ok" /\ stage' = "body"
        /\ UNCHANGED <<attempt, proofs, reply, runs, body, result, aborted>>
     \/ /\ reply.kind = "nonce" /\ proofs = 1 /\ stage' = "authorize"
        /\ UNCHANGED <<attempt, proofs, reply, runs, body, result, aborted>>
     \/ reply.kind = "nonce" /\ proofs = 2 /\ Thrown("refused")
     \/ reply.kind \notin {"ok", "nonce"} /\ Thrown(reply.kind)

\* The header timer, the overall timer, or the caller: the race is lost either way.
HeadersLate == stage = "headers" /\ Thrown("timeout")

\* compactForInputLimit waits at the gate again, inside the handler of the first
\* error: what it throws is caught by nobody.
Compacted ==
  /\ stage = "compacting" /\ ~aborted
  /\ stage' = "boundary" /\ attempt' = attempt + 1 /\ proofs' = 0
  /\ UNCHANGED <<reply, runs, body, result, aborted>>

CompactionThrows ==
  /\ stage = "compacting" /\ aborted
  /\ stage' = "rejected"
  /\ UNCHANGED <<attempt, proofs, reply, runs, body, result, aborted>>

-----------------------------------------------------------------------------
(* The body.  Parsing a chunk gives errors and events, or throws.            *)
Conflicts(known, e) == \E c \in known : c.id = e.id /\ c.args # e.args

Parse(lines, known) ==
  FoldLeft(
    LAMBDA p, e :
      IF p.throws THEN p
      ELSE IF e.type = "bad" THEN [p EXCEPT !.errors = @ + 1]
      ELSE IF \/ e.type = "big"
              \/ e.type = "call" /\ Conflicts(p.calls, e)
              \/ e.type = "call" /\ e \notin p.calls /\ Cardinality(p.calls) = CallLimit
           THEN [p EXCEPT !.throws = TRUE]
      ELSE [p EXCEPT !.events = Append(@, e),
                     !.calls = IF e.type = "call" THEN @ \cup {e} ELSE @],
    [calls |-> known, errors |-> 0, events |-> <<>>, throws |-> FALSE],
    lines)

\* The provider's loop over the events, up to the one that ends the message.
Upto(events) ==
  LET ends == {i \in DOMAIN events : events[i].type \in {"done", "error"}}
  IN  IF ends = {} THEN events ELSE SubSeq(events, 1, CHOOSE i \in ends : \A j \in ends : i <= j)

Consume(m, events) ==
  [blocks |-> m.blocks \o SelectSeq(events, LAMBDA e : e.type \in {"text", "call"}),
   settled |-> m.settled + Len(SelectSeq(events, LAMBDA e : e.type = "settlement"))]

\* Errors of a chunk are yielded before its events.
Take(lines, closing) ==
  LET p == Parse(lines, calls)
      seen == Upto(p.events)
      m == Consume(message, seen)
      end == IF seen = <<>> THEN "none" ELSE Last(seen).type
  IN  /\ calls' = p.calls
      /\ consumed' = (consumed \/ (~p.throws /\ (p.errors > 0 \/ seen # <<>>)))
      /\ IF p.throws \/ p.errors > 0 THEN Fail(message)
         ELSE IF end \in {"done", "error"} THEN Finish(end, m)
         ELSE IF closing THEN Fail(m)
         ELSE message' = m /\ UNCHANGED <<stage, result>>

Units == 3 * Len(reply.script)
Complete(n) == n \div 3

Chunk ==
  /\ stage = "body" /\ ~aborted
  /\ \E n \in arrived + 1 .. Units :
       /\ arrived' = n
       /\ Take(SubSeq(reply.script, Complete(arrived) + 1, Complete(n)), FALSE)
  /\ UNCHANGED <<attempt, proofs, reply, runs, aborted>>

\* The stream ends, wherever it is: a line without its end is parsed, half of one
\* does not parse.
Close ==
  /\ stage = "body" /\ ~aborted
  /\ Take(CASE arrived % 3 = 0 -> <<>>
            [] arrived % 3 = 1 -> <<Plain("bad")>>
            [] arrived % 3 = 2 -> <<reply.script[Complete(arrived) + 1]>>, TRUE)
  /\ UNCHANGED <<attempt, proofs, reply, runs, arrived, aborted>>

\* Mutant: a body that stalls is not given up.
BodyAbortedOnly == stage = "body" /\ aborted /\ Thrown("timeout")

\* The idle timer, the overall timer, a broken connection, or the caller's signal.
BodyLate == stage = "body" /\ Thrown("timeout")

Abort ==
  /\ stage \notin {"ended", "rejected"} /\ ~aborted
  /\ aborted' = TRUE
  /\ UNCHANGED <<stage, attempt, proofs, reply, runs, body, result>>

Next ==
  \/ Overflow \/ Fits \/ Pass \/ Barred \/ Send \/ AuthorizeFails
  \/ Headers \/ HeadersLate \/ Compacted \/ CompactionThrows
  \/ Chunk \/ Close \/ BodyLate \/ Abort

Done == stage \in {"ended", "rejected"} /\ UNCHANGED vars

Spec == Init /\ [][Next \/ Done]_vars

\* The gate lets everyone pass or throws in the end, the signer answers, the timers fire.
Fairness ==
  /\ WF_vars(Fits) /\ WF_vars(Pass) /\ WF_vars(Barred) /\ WF_vars(Send) /\ WF_vars(AuthorizeFails)
  /\ WF_vars(HeadersLate) /\ WF_vars(Compacted) /\ WF_vars(CompactionThrows) /\ WF_vars(BodyLate)
FairSpec == Spec /\ Fairness

-----------------------------------------------------------------------------
\* However a request fails, is challenged or is tried again, the router runs the
\* model for it at most once: nothing is replayed that it may have accepted.
NeverReplayed == runs <= 1

\* A message the agent loop takes for complete, and so acts upon, is the answer up to
\* its first end, every line of it and nothing else, however the answer was cut into
\* chunks: its settlements are reported and no call has two meanings.  A message that
\* failed shows a part of the answer and calls nothing.
AnswerIsWhole ==
  stage = "ended" =>
    LET Shown(es) == SelectSeq(es, LAMBDA e : e.type \in {"text", "call"})
        first == CHOOSE i \in DOMAIN reply.script : /\ reply.script[i].type = "done"
                                                   /\ \A j \in 1 .. i - 1 : reply.script[j].type # "done"
        whole == SubSeq(reply.script, 1, first)
        paid == SelectSeq(whole, LAMBDA e : e.type = "settlement")
    IN  IF result.kind = "done"
        THEN /\ result.blocks = Shown(whole)
             /\ message.settled = Len(paid)
             /\ \A i \in DOMAIN whole : whole[i].type \notin {"bad", "big", "error"}
             /\ \A i, j \in DOMAIN whole :
                  whole[i].type = "call" /\ whole[j].type = "call" /\ whole[i].id = whole[j].id
                    => whole[i] = whole[j]
        ELSE \A i \in DOMAIN result.blocks : result.blocks[i].type = "text"

RequestOver == stage = "ended" \/ (stage = "rejected" /\ aborted)

\* Every request ends, whatever the router does, and its end reaches the agent loop;
\* all but one that is stopped while it compacts for its second attempt.
RequestEnds == <>RequestOver
=============================================================================
