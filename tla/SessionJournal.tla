---------------------------- MODULE SessionJournal ----------------------------
(***************************************************************************)
(* The journal of every chat, the model context projected from it, and the *)
(* copies made of a context: fork, export and import                       *)
(* (src/main/database.ts, session-service.ts, runtime-supervisor.ts).      *)
(*                                                                         *)
(* The database is synchronous: a step is one transaction.  A copy takes   *)
(* many of them, and the process may end between any two.  A digest stands *)
(* for what is hashed: two contexts have one digest only if they are equal.*)
(***************************************************************************)
EXTENDS Naturals, Sequences, SequencesExt, FiniteSets

CONSTANTS Chats,        \* identities of chats
          RouterTurns,  \* requests the router settles
          MaxEvents,    \* bound: events of a journal without the notes
          None

\* What matters of a text: whether export has something to redact in it, and
\* whether it is shaped like sponsored content.
Texts == {"plain", "secret", "redacted", "sponsored"}
Types == {"message", "anchor", "checkpoint", "settlement", "note"}
Policies == {"missing", "ask", "full"}

\* The rows of the tables.  The text of a settlement is the request it settles.
Events ==
  [type : Types \ {"settlement"}, text : Texts, turn : BOOLEAN]
    \cup [type : {"settlement"}, text : RouterTurns, turn : {TRUE}]
Entries == [src : Nat, type : {"message", "anchor"}, text : Texts]
Checkpoints == [src : Nat, upto : Nat, digest : Seq(Entries)]
Origins == [chat : Chats, src : Nat]
ChatRows ==
  [policy : Policies, parent : Chats \cup {None}, from : Origins \cup {None},
   events : Seq(Events), entries : Seq(Entries), checkpoints : SUBSET Checkpoints]
Jobs == [chat : Chats, todo : Seq(Events), born : BOOLEAN]

VARIABLES
  chat,      \* the tables, by chat: journal, context, checkpoints; None: no such row
  outcomes,  \* router_outcomes: settled requests and the chat they are of
  default,   \* the project's permission mode
  phase,     \* "closed", "migrated", "policies", "open": how far the start has got
  schema,    \* PRAGMA user_version: before or after sessions were introduced
  job        \* the copy or settlement under way: events still to be appended

vars == <<chat, outcomes, default, phase, schema, job>>

Event(type, text, turn) == [type |-> type, text |-> text, turn |-> turn]
Note == Event("note", "plain", FALSE)

NewChat(policy, parent, from) ==
  [policy |-> policy, parent |-> parent, from |-> from,
   events |-> <<>>, entries |-> <<>>, checkpoints |-> {}]

\* A database of before sessions: journals only.
OldChat(events) == [NewChat("missing", None, None) EXCEPT !.events = events]
OldJournals ==
  {<<Note>>,
   <<Note, Event("message", "plain", TRUE), Event("checkpoint", "plain", TRUE)>>}

Init ==
  /\ \/ schema = "old" /\ chat \in [Chats -> {OldChat(es) : es \in OldJournals}]
     \/ schema = "new" /\ chat = [c \in Chats |-> None]
  /\ outcomes = {} /\ default \in {"ask", "full"} /\ phase = "closed"
  /\ job = None

-----------------------------------------------------------------------------
(* The projection. *)
Portable(e) == e.type \in {"message", "anchor"} /\ e.text # "sponsored"
Context(entries) == [i \in 1 .. Len(entries) |-> [type |-> entries[i].type, text |-> entries[i].text]]

\* Mutant: an event that has its entry gets another one.
ProjectAgain(row, n) ==
  LET e == row.events[n]
  IN  IF Portable(e)
      THEN [row EXCEPT !.entries = Append(@, [src |-> n, type |-> e.type, text |-> e.text])]
      ELSE row

\* projectSessionEvent, of the n-th event of a journal.
Project(row, n) ==
  LET e == row.events[n]
      upto == Len(row.entries)
      cp == [src |-> n, upto |-> upto, digest |-> row.entries]
  IN  IF e.type = "checkpoint"
      THEN IF e.turn /\ \A c \in row.checkpoints : c.src # n
           THEN [row EXCEPT !.checkpoints = @ \cup {cp}]
           ELSE row
      ELSE IF Portable(e) /\ \A i \in 1 .. upto : row.entries[i].src # n
           THEN [row EXCEPT !.entries = Append(@, [src |-> n, type |-> e.type, text |-> e.text])]
           ELSE row

\* appendEvent: the event and its projection in one transaction.
Appended(row, e) ==
  Project([row EXCEPT !.events = Append(@, e)], Len(row.events) + 1)

Backfilled(row) ==
  LET upto[n \in 0 .. Len(row.events)] == IF n = 0 THEN row ELSE Project(upto[n - 1], n)
  IN  upto[Len(row.events)]

-----------------------------------------------------------------------------
(* The start: migrate, backfillTaskPolicies, backfillSessionProjection.      *)
Rows(op(_)) == [c \in Chats |-> IF chat[c] = None THEN None ELSE op(chat[c])]

Migrate ==
  /\ phase = "closed" /\ phase' = "migrated" /\ schema' = "new"
  /\ UNCHANGED <<chat, outcomes, default, job>>

\* Mutant: every chat follows the project.
BackfillAllPolicies ==
  /\ phase = "migrated" /\ phase' = "policies"
  /\ LET Filled(row) == [row EXCEPT !.policy = default]
     IN  chat' = Rows(Filled)
  /\ UNCHANGED <<outcomes, default, schema, job>>

BackfillPolicies ==
  /\ phase = "migrated" /\ phase' = "policies"
  /\ LET Filled(row) == [row EXCEPT !.policy = IF @ = "missing" THEN default ELSE @]
     IN  chat' = Rows(Filled)
  /\ UNCHANGED <<outcomes, default, schema, job>>

BackfillSessions ==
  /\ phase = "policies" /\ phase' = "open"
  /\ chat' = Rows(Backfilled)
  /\ UNCHANGED <<outcomes, default, schema, job>>

Crash ==
  /\ phase # "closed" /\ phase' = "closed"
  /\ job' = None
  /\ UNCHANGED <<chat, outcomes, default, schema>>

-----------------------------------------------------------------------------
(* Chats of the user, and what their turns append. *)
Free == phase = "open" /\ job = None
Room(c) == chat[c] # None /\ Len(SelectSeq(chat[c].events, LAMBDA e : e # Note)) < MaxEvents

\* createThread: the row and its first event are two transactions.
CreateChat(c) ==
  /\ Free /\ \A d \in Chats : chat[d] = None
  /\ chat' = [chat EXCEPT ![c] = NewChat(default, None, None)]
  /\ job' = [chat |-> c, todo |-> <<Note>>, born |-> FALSE]
  /\ UNCHANGED <<outcomes, default, phase, schema>>

TurnAppends(c, e) ==
  /\ Free /\ Room(c)
  /\ chat' = [chat EXCEPT ![c] = Appended(@, e)]
  /\ UNCHANGED <<outcomes, default, phase, schema, job>>

\* Mutant: a settlement that arrives again is journaled again.
SettleAgain(c, r) ==
  /\ Free /\ Room(c)
  /\ outcomes' = outcomes \cup {<<r, c>>}
  /\ job' = [chat |-> c, todo |-> <<Event("settlement", r, TRUE)>>, born |-> TRUE]
  /\ UNCHANGED <<chat, default, phase, schema>>

\* addRouterOutcome, which the journal follows; a duplicate is dropped.
Settle(c, r) ==
  /\ Free /\ Room(c)
  /\ \A o \in outcomes : o[1] # r
  /\ outcomes' = outcomes \cup {<<r, c>>}
  /\ job' = [chat |-> c, todo |-> <<Event("settlement", r, TRUE)>>, born |-> TRUE]
  /\ UNCHANGED <<chat, default, phase, schema>>

\* The row goes with all that refers to it; references to it are cleared.
Without(c) ==
  [d \in Chats |->
     IF d = c \/ chat[d] = None THEN None
     ELSE [chat[d] EXCEPT !.parent = IF @ = c THEN None ELSE @,
                          !.from = IF @ # None /\ @.chat = c THEN None ELSE @]]

DeleteChat(c) ==
  /\ Free /\ chat[c] # None
  /\ chat' = Without(c)
  /\ outcomes' = {o \in outcomes : o[2] # c}
  /\ UNCHANGED <<default, phase, schema, job>>

ChangeDefault ==
  /\ Free /\ default' = IF default = "ask" THEN "full" ELSE "ask"
  /\ UNCHANGED <<chat, outcomes, phase, schema, job>>

-----------------------------------------------------------------------------
(* Copies.  A context comes back as events of its own: appendEntry. *)
AsEvents(context) ==
  [i \in 1 .. Len(context) |-> Event(context[i].type, context[i].text, FALSE)]
Written(context) == <<Note>> \o AsEvents(context) \o <<Note>>

CopyInto(c, row, context) ==
  /\ chat[c] = None
  /\ chat' = [chat EXCEPT ![c] = row]
  /\ job' = [chat |-> c, todo |-> Written(context), born |-> FALSE]
  /\ UNCHANGED <<outcomes, default, phase, schema>>

\* Mutant: the fork carries the whole context of the chat.
ForkAll(c, source, cp) ==
  /\ Free /\ chat[source] # None /\ cp \in chat[source].checkpoints
  /\ CopyInto(c, NewChat(chat[source].policy, source, [chat |-> source, src |-> cp.src]),
              Context(chat[source].entries))

\* fork: the entries up to the checkpoint, if their digest is the checkpoint's.
Fork(c, source, cp) ==
  /\ Free /\ chat[source] # None /\ cp \in chat[source].checkpoints
  /\ LET entries == SubSeq(chat[source].entries, 1, cp.upto)
     IN  /\ entries = cp.digest
         /\ CopyInto(c, NewChat(chat[source].policy, source, [chat |-> source, src |-> cp.src]),
                     Context(entries))

Scrub(text) == IF text = "secret" THEN "redacted" ELSE text
Export(c) ==
  [i \in 1 .. Len(chat[c].entries) |->
     [type |-> chat[c].entries[i].type, text |-> Scrub(chat[c].entries[i].text)]]

\* parseCliV3: the records name their parents, 0 for none; the branch of the last
\* record is taken, from its root, unless it runs in a circle.
Ancestors(parent, record) ==
  LET up[n \in Nat] == IF n = 0 THEN {record}
                       ELSE up[n - 1] \cup {parent[i] : i \in up[n - 1] \ {0}}
  IN  up[Len(parent)]
ActiveBranch(parent) ==
  SetToSortSeq(Ancestors(parent, Len(parent)) \ {0}, LAMBDA a, b : a \in Ancestors(parent, b))
CliDocuments ==
  {[i \in 1 .. n |-> [type |-> "message", text |-> "plain"]] :
     n \in {m \in 1 .. 2 : \E p \in [1 .. 2 -> 0 .. 2] :
              0 \in Ancestors(p, 2) /\ Len(ActiveBranch(p)) = m}}

\* confirmImport of a preview that has not expired: a document with something in it
\* that an export redacts is refused.
Import(c, document) ==
  /\ Free /\ document # <<>>
  /\ \A i \in DOMAIN document : /\ document[i].text # "sponsored"
                                /\ Scrub(document[i].text) = document[i].text
  /\ CopyInto(c, NewChat(default, None, None), document)

Continue ==
  /\ phase = "open" /\ job # None
  /\ chat' = [chat EXCEPT ![job.chat] = Appended(@, Head(job.todo))]
  /\ job' = IF Len(job.todo) = 1 THEN None
            ELSE [job EXCEPT !.todo = Tail(@), !.born = TRUE]
  /\ UNCHANGED <<outcomes, default, phase, schema>>

\* A transaction that fails: a copy is deleted, unless createThread itself threw.
Fails ==
  /\ phase = "open" /\ job # None /\ job' = None
  /\ chat' = IF job.born /\ Head(job.todo).type # "settlement"
             THEN Without(job.chat) ELSE chat
  /\ UNCHANGED <<outcomes, default, phase, schema>>

-----------------------------------------------------------------------------
TurnEvents ==
  {Event("message", text, TRUE) : text \in {"plain", "secret", "sponsored"}}
    \cup {Event("checkpoint", "plain", TRUE)}

\* previewImport: what was exported here, or comes from elsewhere.
Documents ==
  {Export(c) : c \in {d \in Chats : chat[d] # None}} \cup CliDocuments
    \cup {<<[type |-> type, text |-> text]>> : type \in {"message"}, text \in Texts}

Next ==
  \/ Migrate \/ BackfillPolicies \/ BackfillSessions \/ Crash
  \/ ChangeDefault \/ Continue \/ Fails
  \/ \E c \in Chats :
       \/ CreateChat(c) \/ DeleteChat(c)
       \/ \E d \in Documents : Import(c, d)
       \/ \E e \in TurnEvents : TurnAppends(c, e)
       \/ \E r \in RouterTurns : Settle(c, r)
       \/ \E s \in Chats : \E cp \in (IF chat[s] = None THEN {} ELSE chat[s].checkpoints) :
            Fork(c, s, cp)

Spec == Init /\ [][Next]_vars

-----------------------------------------------------------------------------
Existing == {c \in Chats : chat[c] # None}

\* The context and the checkpoints of a row are what its first n events make: each
\* portable one once and in order, and each checkpoint fits at its place.
Projected(row, n) ==
  /\ {row.entries[i].src : i \in DOMAIN row.entries} = {m \in 1 .. n : Portable(row.events[m])}
  /\ \A i \in DOMAIN row.entries :
       /\ row.entries[i].type = row.events[row.entries[i].src].type
       /\ row.entries[i].text = row.events[row.entries[i].src].text
       /\ \A j \in 1 .. i - 1 : row.entries[j].src < row.entries[i].src
  /\ {cp.src : cp \in row.checkpoints} =
       {m \in 1 .. n : row.events[m].type = "checkpoint" /\ row.events[m].turn}
  /\ \A cp \in row.checkpoints :
       /\ cp.upto \in 0 .. Len(row.entries)
       /\ cp.digest = SubSeq(row.entries, 1, cp.upto)
       /\ \A i \in DOMAIN row.entries : i <= cp.upto <=> row.entries[i].src < cp.src

\* Once the database is open, the context of a chat is its whole journal projected,
\* and each checkpoint still has the digest of the context at its place: whatever
\* transactions a start or a copy was cut between.
ContextMatchesJournal ==
  phase = "open" => \A c \in Existing : Projected(chat[c], Len(chat[c].events))

Copying(c) == job # None /\ job.chat = c /\ Head(job.todo).type # "settlement"

\* A fork carries nothing but the context of its checkpoint, never what its source
\* went through after it: what is written and what is still to be written make up all
\* of it, and only a process that ends, or a write that fails, can cut it short.  What
\* follows is of the turns of the fork.
ForksStartAtCheckpoint ==
  \A c \in Existing : \A cp \in
      (IF chat[c].from = None THEN {} ELSE chat[chat[c].from.chat].checkpoints) :
    cp.src = chat[c].from.src =>
      LET whole == Written(Context(cp.digest))
          events == chat[c].events
      IN  IF Copying(c) THEN events \o job.todo = whole
          ELSE \E n \in 0 .. Len(events) :
                 /\ IsPrefix(SubSeq(events, 1, n), whole)
                 /\ \A m \in n + 1 .. Len(events) : events[m].turn

\* What an import writes holds nothing that an export would have redacted and
\* nothing sponsored, whatever document was previewed.
ImportsAreClean ==
  \A c \in Existing : (Copying(c) /\ chat[c].from = None) =>
    \A e \in ToSet(chat[c].events) \cup ToSet(job.todo) : e.text \in {"plain", "redacted"}

\* A settlement is journaled once, however often it is reported.
SettledOnce ==
  \A c, d \in Existing :
    \A n \in DOMAIN chat[c].events, m \in DOMAIN chat[d].events :
      chat[c].events[n].text \in RouterTurns /\ chat[d].events[m].text = chat[c].events[n].text
        => c = d /\ n = m

\* No transaction takes anything from a chat that exists before and after it.
OnlyGrows ==
  \A c \in Existing \cap {d \in Chats : chat'[d] # None} :
    /\ IsPrefix(chat[c].events, chat'[c].events)
    /\ IsPrefix(chat[c].entries, chat'[c].entries)
    /\ chat[c].checkpoints \subseteq chat'[c].checkpoints
    /\ chat[c].policy \in {"missing", chat'[c].policy}

\* Journals, contexts and checkpoints only grow and the policy of a chat stays what
\* it was when it was made, through every restart.
HistoryIsAppendOnly == [][OnlyGrows]_vars
=============================================================================
