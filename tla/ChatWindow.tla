------------------------------- MODULE ChatWindow -------------------------------
(***************************************************************************)
(* The window: what it shows of the selected chat (src/renderer/App.tsx),  *)
(* and how it hears of it: the answers to its requests and the events of   *)
(* its subscription (src/main/ipc.ts, src/preload/index.ts).  The journal  *)
(* of a chat is a sequence of kinds of events; a position in it is an      *)
(* event.  Requests and answers keep their order, as Electron's channel    *)
(* does; only a turn's start is answered when it is done.                  *)
(***************************************************************************)
EXTENDS Naturals, Sequences, SequencesExt, FiniteSets

CONSTANTS
  Chats, None,
  Made,         \* the chats there are when the window opens
  EventKinds,   \* the kinds of events looked at
  MaxHappenings \* bound: events in all journals and things the user does

VARIABLES
  journal,   \* chat -> its events, or None before it is created
  gone,      \* deleted chats
  remote,    \* chats whose last turn was started by automation
  subs,      \* main process: subscriptions, by the view they were made for
  toMain, toWindow,
  call,      \* the one request of the user that makes the window busy, or None
  selected, newTask,
  view,      \* number of the effect that follows the selection
  known,     \* whether its subscription has been answered
  listed,    \* the threads the window knows, and those it takes for running
  detail,    \* the chat shown: its events up to "at", and those heard "later"; or None
  acts,      \* things the user did
  missed     \* history: selected chats with an event no subscription was there for

window == <<selected, newTask, view, known, listed, detail>>
vars == <<journal, gone, remote, subs, toMain, toWindow, call, window, acts, missed>>

Existing == {c \in Chats \ gone : journal[c] # None}

\* Of the events of a chat up to n: the last of some kinds, and the turns begun.
LastOf(c, n, kinds) ==
  LET at == {i \in 1..n : journal[c][i] \in kinds}
  IN  IF at = {} THEN "none" ELSE journal[c][CHOOSE i \in at : \A j \in at : j <= i]

Running(c, n) == LastOf(c, n, {"begins", "ends"}) = "begins"
Asking(c, n) == LastOf(c, n, {"ask", "answer"}) = "ask"
Attending(c, n) == LastOf(c, n, {"attend", "cleared", "ends"}) = "attend"
Turns(c, n) == Cardinality({i \in 1..n : journal[c][i] = "begins"})
End(c) == Len(journal[c])
Total == FoldSet(LAMBDA c, n : n + End(c), 0, {c \in Chats : journal[c] # None})

Init ==
  /\ journal = [c \in Chats |-> IF c \in Made THEN <<>> ELSE None]
  /\ gone = {} /\ remote = {} /\ subs = {} /\ toMain = <<[op |-> "list", then |-> None]>> /\ toWindow = <<>>
  /\ call = None /\ selected = None /\ newTask = FALSE /\ view = 0 /\ known = FALSE
  /\ listed = [all |-> {}, running |-> {}] /\ detail = None /\ acts = 0 /\ missed = {}

Happening == Total + acts < MaxHappenings
Acts == Happening /\ acts' = acts + 1

-----------------------------------------------------------------------------
(* The main process. *)
Sent(c, n) ==
  LET to == {s \in subs : s.chat = c}
  IN  [i \in 1..Cardinality(to) |->
         [op |-> "event", chat |-> c, n |-> n,
          view |-> SetToSortSeq({s.view : s \in to}, <)[i]]]

Missing(c) ==
  IF selected = c /\ [view |-> view, chat |-> c] \notin subs THEN missed \cup {c} ELSE missed

\* appendEvent and publish.
Publish(c, kind) ==
  /\ Happening
  /\ journal' = [journal EXCEPT ![c] = Append(@, kind)]
  /\ toWindow' = toWindow \o Sent(c, End(c) + 1)
  /\ missed' = Missing(c)

\* What the turn of a chat, a decision elsewhere or automation does.  A turn that ends has
\* its approvals answered first (rejectPendingApprovals).
Kinds(c) ==
  LET n == End(c)
  IN  EventKinds \cap
        IF ~Running(c, n) THEN {"begins"}
        ELSE {"text"} \cup (IF Asking(c, n) THEN {"answer"} ELSE {"ask", "ends"})
               \cup (IF Attending(c, n) THEN {"cleared"} ELSE {"attend"})

Happens(c) ==
  /\ \E kind \in Kinds(c) :
       /\ Publish(c, kind)
       /\ remote' = IF kind = "begins" THEN remote \cup {c} ELSE remote
  /\ UNCHANGED <<acts, gone, subs, toMain, call, window>>

\* threads.get, threads.list, events.subscribe and events.unsubscribe answer at once.
Answer(m) ==
  CASE m.op = "get" -> IF m.chat \in Existing
                       THEN <<[op |-> "detail", chat |-> m.chat, at |-> End(m.chat)]>> ELSE <<>>
    [] m.op = "list" -> <<[op |-> "threads", then |-> m.then, all |-> Existing,
                           running |-> {c \in Existing : Running(c, End(c))}]>>
    [] m.op = "subscribe" -> <<[op |-> "subscribed", view |-> m.view]>>
    [] m.op = "change" -> <<[op |-> "changed", chat |-> m.chat]>>
    [] OTHER -> <<>>

Read ==
  /\ toMain # <<>> /\ Head(toMain).op \in {"get", "list", "subscribe", "unsubscribe", "change"}
  /\ LET m == Head(toMain)
     IN  /\ toWindow' = toWindow \o Answer(m)
         /\ subs' = IF m.op = "subscribe" THEN subs \cup {[view |-> m.view, chat |-> m.chat]}
                    ELSE IF m.op = "unsubscribe" THEN {s \in subs : s.view # m.view}
                    ELSE subs
         /\ missed' = IF m.op = "get" THEN missed \ {m.chat} ELSE missed
  /\ toMain' = Tail(toMain)
  /\ UNCHANGED <<acts, journal, gone, remote, call, window>>

\* approvals.resolve: refused when it is decided already.
Decide ==
  /\ toMain # <<>> /\ Head(toMain).op = "resolve"
  /\ LET m == Head(toMain)
     IN  IF m.chat \in Existing /\ Asking(m.chat, End(m.chat))
         THEN /\ Happening
              /\ journal' = [journal EXCEPT ![m.chat] = Append(@, "answer")]
              /\ toWindow' = toWindow \o Sent(m.chat, End(m.chat) + 1)
                               \o <<[op |-> "resolved", shown |-> m.shown]>>
              /\ missed' = Missing(m.chat)
         ELSE UNCHANGED <<journal, toWindow, missed>>
  /\ toMain' = Tail(toMain)
  /\ UNCHANGED <<acts, gone, remote, subs, call, window>>

\* turns.acknowledgePresence: of this chat's prompt.
Acknowledge ==
  /\ toMain # <<>> /\ Head(toMain).op = "ack"
  /\ LET m == Head(toMain)
     IN  IF m.chat = m.prompt /\ m.chat \in Existing /\ Attending(m.chat, End(m.chat))
         THEN Publish(m.chat, "cleared")
         ELSE UNCHANGED <<journal, toWindow, missed>>
  /\ toMain' = Tail(toMain)
  /\ UNCHANGED <<acts, gone, remote, subs, call, window>>

\* threads.create, fork or import; turns.start, refused when the chat runs; steer and queueFollowUp, refused
\* when it does not.
Called ==
  /\ call # None
  /\ \/ /\ call.stage = "create"
        /\ \E c \in {d \in Chats : journal[d] = None} :
             /\ journal' = [journal EXCEPT ![c] = <<>>]
             /\ call' = [call EXCEPT !.stage = "created", !.chat = c]
        /\ UNCHANGED <<remote, toWindow, missed>>
     \/ /\ call.stage = "send"
        /\ IF call.chat \in Existing /\ Running(call.chat, End(call.chat)) = (call.mode = "steer")
           THEN /\ call' = [call EXCEPT !.stage = "sent"]
                /\ Publish(call.chat, IF call.mode = "steer" THEN "text" ELSE "begins")
                /\ remote' = IF call.mode = "steer" THEN remote ELSE remote \ {call.chat}
           ELSE call' = None /\ UNCHANGED <<journal, remote, toWindow, missed>>
  /\ UNCHANGED <<acts, gone, subs, toMain, window>>

\* threads.delete: not while it runs.
Delete(c) ==
  /\ Acts /\ c \in listed.all \cap Existing /\ ~Running(c, End(c))
  /\ gone' = gone \cup {c}
  /\ toWindow' = Append(toWindow, [op |-> "deleted", chat |-> c, was |-> selected])
  /\ UNCHANGED <<journal, remote, subs, toMain, call, window, missed>>

-----------------------------------------------------------------------------
(* The window. *)
Get(c) == [op |-> "get", chat |-> c]
List == [op |-> "list", then |-> None]

\* The selection becomes c: the effect ends the old subscription and starts anew.
Selects(c, requests) ==
  IF c = selected THEN toMain' = toMain \o requests /\ UNCHANGED <<selected, view, known, detail>>
  ELSE /\ view' = view + 1 /\ selected' = c /\ known' = FALSE
       /\ toMain' = toMain \o requests
            \o (IF known THEN <<[op |-> "unsubscribe", view |-> view]>> ELSE <<>>)
            \o (IF c = None THEN <<>>
                ELSE <<Get(c), [op |-> "subscribe", chat |-> c, view |-> view']>>)
       /\ detail' = IF c = None THEN None ELSE detail

\* The user picks a chat of the list, or a new task.
Pick ==
  /\ Acts
  /\ \E c \in listed.all \cup {None} :
       /\ c # selected \/ c = None
       /\ newTask' = (c = None)
       /\ IF c = selected THEN detail' = None /\ UNCHANGED <<toMain, selected, view, known>>
          ELSE Selects(c, <<>>)
  /\ UNCHANGED <<journal, gone, remote, subs, toWindow, call, listed, missed>>

\* What is shown, of approvals and of presence too.
ShownEvents == [i \in 1..detail.at |-> i] \o detail.later
ShownRunning ==
  IF selected \in listed.all THEN selected \in listed.running
  ELSE detail # None /\ detail.chat = selected /\ Running(selected, detail.at)
ShownApproval == detail # None /\ Asking(detail.chat, detail.at)
ShownPrompt ==
  /\ ShownRunning /\ detail # None
  /\ LET c == detail.chat
         ofTurn == {i \in ToSet(ShownEvents) : /\ journal[c][i] \in {"attend", "cleared"}
                                               /\ Turns(c, i) = Turns(c, detail.at)}
     IN  ofTurn # {} /\ journal[c][Max(ofTurn)] = "attend"

\* send: what it takes for a running chat it steers.
Send ==
  /\ Acts /\ call = None
  /\ call' = [stage |-> IF selected = None THEN "create" ELSE "send", chat |-> selected,
              mode |-> IF selected # None /\ ShownRunning THEN "steer" ELSE "start"]
  /\ UNCHANGED <<journal, gone, remote, subs, toMain, toWindow, window, missed>>

\* forkCheckpoint and confirmSessionImport.
Copy ==
  /\ Acts /\ call = None
  /\ call' = [stage |-> "create", chat |-> None, mode |-> "open"]
  /\ UNCHANGED <<journal, gone, remote, subs, toMain, toWindow, window, missed>>

\* continueThread, saveThreadLabel, compactContext, clearQueuedFollowUps and
\* resolveGitOperation: a request about the selected chat, which is read again after it.
Change ==
  /\ Acts /\ selected # None
  /\ toMain' = Append(toMain, [op |-> "change", chat |-> selected])
  /\ UNCHANGED <<journal, gone, remote, subs, toWindow, call, window, missed>>

\* What send, or a copy, does after each of its requests.
Sends ==
  /\ call # None
  /\ \/ /\ call.stage = "created" /\ call' = [call EXCEPT !.stage = "listing"]
        /\ toMain' = Append(toMain, [op |-> "list", then |-> call.chat])
     \/ /\ call.stage = "sent" /\ call' = None
        /\ toMain' = toMain \o <<Get(call.chat)>> \o (IF call.mode = "steer" THEN <<>> ELSE <<List>>)
  /\ UNCHANGED <<acts, journal, gone, remote, subs, toWindow, window, missed>>

\* resolveApproval: of the chat shown; the selected one is read again.
Resolve ==
  /\ Acts /\ ShownApproval
  /\ toMain' = Append(toMain, [op |-> "resolve", chat |-> detail.chat, shown |-> selected])
  /\ UNCHANGED <<journal, gone, remote, subs, toWindow, call, window, missed>>

\* Enter.
Enter ==
  /\ Acts /\ ShownPrompt /\ selected # None
  /\ toMain' = Append(toMain, [op |-> "ack", chat |-> selected, prompt |-> detail.chat])
  /\ UNCHANGED <<journal, gone, remote, subs, toWindow, call, window, missed>>

\* Mutant: a listener that does not ask whether its view is the current one.
HeardByAnyView(m) ==
  /\ IF selected = m.chat /\ detail # None /\ detail.chat = selected
     THEN detail' = [detail EXCEPT !.later = SortSeq(Append(@, m.n), <)]
     ELSE UNCHANGED detail
  /\ UNCHANGED <<toMain, selected, newTask, view, known, listed, call>>

\* The listener of the subscription.
Heard(m) ==
  /\ IF m.view = view /\ detail # None /\ detail.chat = selected
     THEN detail' = [detail EXCEPT !.later = SortSeq(Append(@, m.n), <)]
     ELSE UNCHANGED detail
  /\ LET kind == journal[m.chat][m.n]
     IN  toMain' = IF m.view # view THEN toMain
                   ELSE IF kind \in {"begins", "ends"} THEN Append(toMain, List)
                   ELSE IF kind \in {"ask", "answer"} THEN Append(toMain, Get(selected))
                   ELSE toMain
  /\ UNCHANGED <<selected, newTask, view, known, listed, call>>

\* refreshDetail: whatever is selected by now.
Shows(m) ==
  /\ detail' = [chat |-> m.chat, at |-> m.at, later |-> <<>>]
  /\ UNCHANGED <<toMain, selected, newTask, view, known, listed, call>>

Subscribed(m) ==
  /\ IF m.view = view THEN known' = TRUE /\ UNCHANGED toMain
     ELSE toMain' = Append(toMain, [op |-> "unsubscribe", view |-> m.view]) /\ UNCHANGED known
  /\ UNCHANGED <<selected, newTask, view, listed, detail, call>>

\* refreshThreads; send goes on after its own.  After a deletion only the list is read.
Lists(m) ==
  /\ listed' = [all |-> m.all, running |-> m.running]
  /\ IF m.then \in Chats
     THEN /\ newTask' = FALSE /\ Selects(m.then, <<>>)
          /\ call' = IF call.mode = "open" THEN None ELSE [call EXCEPT !.stage = "send"]
     ELSE /\ IF m.then = "keep" \/ selected \in m.all \/ newTask \/ m.all = {}
             THEN Selects(IF m.then = "keep" \/ selected \in m.all THEN selected ELSE None, <<>>)
             ELSE \E c \in m.all : Selects(c, <<>>)
          /\ UNCHANGED <<newTask, call>>

\* deleteThread, after its request: it compares with what was selected before.
Deleted(m) ==
  /\ Selects(IF m.was = m.chat THEN None ELSE selected, <<[op |-> "list", then |-> "keep"]>>)
  /\ UNCHANGED <<newTask, listed, call>>

\* What a change does after its request.
Changed(m) ==
  /\ toMain' = toMain \o <<List, Get(m.chat)>>
  /\ UNCHANGED <<selected, newTask, view, known, listed, detail, call>>

\* resolveApproval, after its request.
Resolved(m) ==
  /\ IF m.shown = None THEN detail' = None /\ UNCHANGED toMain
     ELSE toMain' = Append(toMain, Get(m.shown)) /\ UNCHANGED detail
  /\ UNCHANGED <<selected, newTask, view, known, listed, call>>

Hears ==
  /\ toWindow # <<>> /\ toWindow' = Tail(toWindow)
  /\ LET m == Head(toWindow)
     IN  \/ m.op = "event" /\ Heard(m)
         \/ m.op = "detail" /\ Shows(m)
         \/ m.op = "subscribed" /\ Subscribed(m)
         \/ m.op = "threads" /\ Lists(m)
         \/ m.op = "deleted" /\ Deleted(m)
         \/ m.op = "resolved" /\ Resolved(m)
         \/ m.op = "changed" /\ Changed(m)
  /\ UNCHANGED <<acts, journal, gone, remote, subs, missed>>

Next ==
  \/ Read \/ Decide \/ Acknowledge \/ Called
  \/ \E c \in Existing : Happens(c) \/ Delete(c)
  \/ Pick \/ Send \/ Copy \/ Change \/ Sends \/ Resolve \/ Enter \/ Hears

Spec == Init /\ [][Next]_vars

-----------------------------------------------------------------------------
\* No event is shown twice, and the journal's order is kept, whatever was selected in
\* between and however answers and events cross.
NoEventTwice ==
  detail # None => \A i, j \in DOMAIN ShownEvents : i < j => ShownEvents[i] < ShownEvents[j]

Quiet == toMain = <<>> /\ toWindow = <<>> /\ call = None
Settled == Quiet /\ selected \in Existing /\ detail # None /\ detail.chat = selected

\* When nothing is on its way and the chat shown is the selected one, every event of it is
\* shown, an approval that waits for an answer can be given it, and the turn of the user is
\* known; unless an event came between the answer that was read and the subscription.
ShownIsCurrent ==
  Settled /\ selected \notin missed =>
    /\ ShownEvents = [i \in 1..End(selected) |-> i]
    /\ ShownApproval = Asking(selected, End(selected))
    /\ selected \notin remote => Turns(selected, detail.at) = Turns(selected, End(selected))
=============================================================================
