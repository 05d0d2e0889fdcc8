------------------------------- MODULE DrainLoop -------------------------------
(***************************************************************************)
(* The loop of RuntimeScheduler.drain() (src/main/runtime-scheduler.ts),   *)
(* step by step over the array, against its description Drains.  It is     *)
(* run from every array of distinct tasks and every lawful active set.     *)
(***************************************************************************)
EXTENDS RuntimeLeases, Sequences

VARIABLES
  q0, a0,    \* the array and the active set when drain() is called
  q, a,      \* the array and the active set
  started,   \* the flag of the while loop
  index,     \* the index of the for loop
  pc         \* "while", "for" or "done"

vars == <<q0, a0, q, a, started, index, pc>>

Elements(s) == {s[i] : i \in DOMAIN s}

\* The pairs <<s[i], s[j]>> with i < j.
OrderOf(s) ==
  UNION {{<<s[i], s[j]>> : i \in 1..(j - 1)} : j \in DOMAIN s}

\* What `this.queue` may hold: distinct ids, none of them active.
Arrays ==
  {s \in UNION {[1..n -> Tasks] : n \in 0..MaxQueued} :
     \A i, j \in DOMAIN s : i # j => s[i] # s[j]}

ActiveSets ==
  {s \in SUBSET Tasks :
     /\ Cardinality(s) <= Capacity
     /\ \A t, u \in s : t # u => ~LeasesConflict(t, u)}

Init ==
  /\ q0 \in Arrays
  /\ a0 \in {s \in ActiveSets : s \cap Elements(q0) = {}}
  /\ q = q0 /\ a = a0
  /\ started = TRUE /\ index = 1 /\ pc = "while"

-----------------------------------------------------------------------------
\* Mutant: the earlier queued tasks are not looked at.
CanStartUnordered(i) ==
  /\ Cardinality(a) < Capacity
  /\ \A u \in a : ~LeasesConflict(u, q[i])

\* canStart(task, queueIndex)
CanStart(i) ==
  /\ Cardinality(a) < Capacity
  /\ \A u \in a : ~LeasesConflict(u, q[i])
  /\ \A j \in 1..(i - 1) : ~LeasesConflict(q[j], q[i])

\* this.queue.splice(index, 1)
Spliced(i) == SubSeq(q, 1, i - 1) \o SubSeq(q, i + 1, Len(q))

WhileGoesOn == started /\ Cardinality(a) < Capacity

WhileTest ==
  /\ pc = "while"
  /\ \/ /\ WhileGoesOn
        /\ started' = FALSE /\ index' = 1 /\ pc' = "for"
     \/ /\ ~WhileGoesOn
        /\ pc' = "done"
        /\ UNCHANGED <<started, index>>
  /\ UNCHANGED <<q0, a0, q, a>>

\* Splice the task out, activate it, break out of the for loop.
StartOne ==
  /\ pc = "for" /\ index <= Len(q)
  /\ CanStart(index)
  /\ q' = Spliced(index)
  /\ a' = a \cup {q[index]}
  /\ started' = TRUE /\ pc' = "while"
  /\ UNCHANGED <<q0, a0, index>>

SkipOne ==
  /\ pc = "for" /\ index <= Len(q)
  /\ ~CanStart(index)
  /\ index' = index + 1
  /\ UNCHANGED <<q0, a0, q, a, started, pc>>

EndOfScan ==
  /\ pc = "for" /\ index > Len(q)
  /\ pc' = "while"
  /\ UNCHANGED <<q0, a0, q, a, started, index>>

Next == WhileTest \/ StartOne \/ SkipOne \/ EndOfScan

Spec == Init /\ [][Next]_vars /\ WF_vars(Next)

-----------------------------------------------------------------------------
\* Types: the queue stays an array of distinct tasks, none of them active.
TypeOK ==
  /\ q0 \in Arrays /\ q \in Arrays
  /\ a0 \subseteq Tasks /\ a \subseteq Tasks
  /\ started \in BOOLEAN /\ index \in 1..(MaxQueued + 1)
  /\ pc \in {"while", "for", "done"}

\* The loop admits exactly the set Drains describes, that set is the only one
\* it describes, and the rest of the array keeps its order.
LoopComputesDrain ==
  pc = "done" =>
    /\ {S \in SUBSET Elements(q0) : Drains(Elements(q0), a0, OrderOf(q0), S)}
         = {a \ a0}
    /\ Elements(q) = Elements(q0) \ a
    /\ OrderOf(q) = OrderOf(q0) \cap (Elements(q) \X Elements(q))

\* At no point of the loop do two active tasks hold conflicting leases.
LoopKeepsLeases == a \in ActiveSets
=============================================================================
