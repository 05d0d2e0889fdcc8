------------------------------ MODULE GitWorkflow ------------------------------
(***************************************************************************)
(* Reviewed Git operations: those of the user interface                    *)
(* (src/main/git-workflow-service.ts) and those a turn asks for            *)
(* (src/runtime/tools.ts), each through an OperationBroker of its own,     *)
(* and what they do to the repository (src/runtime/git-operations.ts).     *)
(* Other programs, and the tools of a turn, change the same repository.    *)
(*                                                                         *)
(* The repository has one file.  A content is a number, a commit is the    *)
(* sequence of the contents committed up to it.                            *)
(***************************************************************************)
EXTENDS Naturals, Sequences, SequencesExt, FiniteSets

CONSTANTS
  Chats, Branches, Main, None,
          MaxPreviews,   \* MAX_PENDING_PREVIEWS
          MaxContents,   \* bound: contents ever written to the file
          MaxCommits,    \* bound: length of a branch
          MaxOps         \* bound: operations in a queue

VARIABLES
  file, index, ref, tips, remote,  \* the repository, and the branch at the remote
  fresh,      \* contents written to the file so far
  tasks,      \* whether any chat has a turn (supervisor.hasTasks)
  previews,   \* of each chat the manifest under review, or None
  queue       \* of each broker the operations it has to execute; the first may be checked,
              \* and then raced by a change of another origin

repo == <<file, index, ref, tips, remote>>
vars == <<file, index, ref, tips, remote, fresh, tasks, previews, queue>>

Brokers == {"gui", "turn"}

Init ==
  /\ file = 0 /\ index = 0 /\ ref = Main /\ remote = <<>> /\ fresh = 0
  /\ tips = [b \in Branches |-> IF b = Main THEN <<0>> ELSE None]
  /\ tasks = FALSE /\ previews = [c \in Chats |-> None]
  /\ queue = [b \in Brokers |-> <<>>]

Tip == tips[ref]
Clean == file = index /\ index = Last(Tip)

-----------------------------------------------------------------------------
\* createGitOperationManifest: what a manifest binds of the repository as it is, and what may
\* be asked of that.
Manifest(kind, branch) ==
  [kind |-> kind, head |-> Tip, index |-> index, ref |-> ref,
   file |-> IF kind \in {"stage", "hunk"} THEN file ELSE None,
   branch |-> branch, oid |-> IF kind = "switch" THEN tips[branch] ELSE Tip]

Manifests ==
  {Manifest("branch", b) : b \in {x \in Branches : tips[x] = None}}
    \cup {Manifest("switch", b) : b \in {x \in Branches : tips[x] # None /\ Clean}}
    \cup {Manifest(kind, None) :
            kind \in {"stage", "push"} \cup (IF file # index THEN {"hunk"} ELSE {})
                       \cup (IF index # Last(Tip) THEN {"commit"} ELSE {})}

Operation(m) == [manifest |-> m, checked |-> FALSE, raced |-> FALSE]

\* preview: one per chat, and none while there is a turn.
Preview(c) ==
  /\ ~tasks
  /\ Cardinality({d \in Chats \ {c} : previews[d] # None}) < MaxPreviews
  /\ \E m \in Manifests : previews' = [previews EXCEPT ![c] = m]
  /\ UNCHANGED <<repo, fresh, tasks, queue>>

\* resolve: allowed once, whatever follows.
Allow(c) ==
  /\ previews[c] # None /\ Len(queue["gui"]) < MaxOps
  /\ previews' = [previews EXCEPT ![c] = None]
  /\ queue' = IF tasks THEN queue
              ELSE [queue EXCEPT !["gui"] = Append(@, Operation(previews[c]))]
  /\ UNCHANGED <<repo, fresh, tasks>>

\* resolve, denied; or the preview expires.
Deny(c) ==
  /\ previews[c] # None
  /\ previews' = [previews EXCEPT ![c] = None]
  /\ UNCHANGED <<repo, fresh, tasks, queue>>

TurnBegins ==
  /\ ~tasks /\ tasks' = TRUE
  /\ UNCHANGED <<repo, fresh, previews, queue>>

TurnEnds ==
  /\ tasks /\ tasks' = FALSE
  /\ UNCHANGED <<repo, fresh, previews, queue>>

\* A tool of a turn, allowed; no hunks there.
TurnAsks ==
  /\ tasks /\ Len(queue["turn"]) < MaxOps
  /\ \E m \in {x \in Manifests : x.kind # "hunk"} :
       queue' = [queue EXCEPT !["turn"] = Append(@, Operation(m))]
  /\ UNCHANGED <<repo, fresh, tasks, previews>>

-----------------------------------------------------------------------------
(* executeGitOperation. *)
\* Mutant: what is staged has not to be what was reviewed.
MatchesHead(m) ==
  /\ Tip = m.head /\ ref = m.ref
  /\ m.kind = "switch" => Clean /\ tips[m.branch] = m.oid

Matches(m) ==
  /\ Tip = m.head /\ index = m.index /\ ref = m.ref
  /\ m.file # None => file = m.file
  /\ m.kind = "switch" => Clean /\ tips[m.branch] = m.oid

\* assertGitState, verifyStructuredTargets, and what each kind looks at again.  Every read
\* of the repository after the first counts as after the check.
Check(b) ==
  /\ queue[b] # <<>> /\ ~Head(queue[b]).checked
  /\ queue' = [queue EXCEPT ![b] = IF Matches(Head(@).manifest)
                                   THEN <<[Head(@) EXCEPT !.checked = TRUE]>> \o Tail(@)
                                   ELSE Tail(@)]
  /\ UNCHANGED <<repo, fresh, tasks, previews>>

\* The repository changes, and the operations checked before know nothing of it.
Raced(q) == IF q # <<>> /\ Head(q).checked THEN <<[Head(q) EXCEPT !.raced = TRUE]>> \o Tail(q) ELSE q

\* What git does with its arguments, when it does something.
Creates(m) ==
  /\ m.kind = "branch" /\ tips[m.branch] = None
  /\ tips' = [tips EXCEPT ![m.branch] = m.oid]
  /\ UNCHANGED <<file, index, ref, remote>>

Switches(m) ==
  /\ m.kind = "switch" /\ ref' = m.branch
  /\ IF Last(tips[m.branch]) = Last(Tip) THEN UNCHANGED <<file, index>>
     ELSE Clean /\ file' = Last(tips[m.branch]) /\ index' = Last(tips[m.branch])
  /\ UNCHANGED <<tips, remote>>

Stages(m) ==
  /\ m.kind = "stage" /\ index' = file
  /\ UNCHANGED <<file, ref, tips, remote>>

\* The reviewed patch applies to the index it was made for.
StagesHunk(m) ==
  /\ m.kind = "hunk" /\ index = m.index /\ index' = m.file
  /\ UNCHANGED <<file, ref, tips, remote>>

Commits(m) ==
  /\ m.kind = "commit" /\ index # Last(Tip) /\ Len(Tip) < MaxCommits
  /\ tips' = [tips EXCEPT ![ref] = Append(@, index)]
  /\ UNCHANGED <<file, index, ref, remote>>

\* Without force: what is at the remote has to be an ancestor.
Pushes(m) ==
  /\ m.kind = "push" /\ IsPrefix(remote, m.oid)
  /\ remote' = m.oid
  /\ UNCHANGED <<file, index, ref, tips>>

Git(m) == Creates(m) \/ Switches(m) \/ Stages(m) \/ StagesHunk(m) \/ Commits(m) \/ Pushes(m)

Run(b) ==
  /\ queue[b] # <<>> /\ Head(queue[b]).checked
  /\ Git(Head(queue[b]).manifest)
  /\ queue' = [d \in Brokers |-> IF d = b THEN Tail(queue[d]) ELSE Raced(queue[d])]
  /\ UNCHANGED <<fresh, tasks, previews>>

\* git fails or is ended after GIT_TIMEOUT_MS; its exit code is a result like another.
RunFails(b) ==
  /\ queue[b] # <<>> /\ Head(queue[b]).checked
  /\ queue' = [queue EXCEPT ![b] = Tail(@)]
  /\ UNCHANGED <<repo, fresh, tasks, previews>>

-----------------------------------------------------------------------------
\* The user, or a tool, edits the file; another program stages or commits it.
Edit ==
  /\ fresh < MaxContents
  /\ fresh' = fresh + 1 /\ file' = fresh + 1
  /\ queue' = [b \in Brokers |-> Raced(queue[b])]
  /\ UNCHANGED <<index, ref, tips, remote, tasks, previews>>

OthersStage ==
  /\ index' = file /\ index # file
  /\ queue' = [b \in Brokers |-> Raced(queue[b])]
  /\ UNCHANGED <<file, ref, tips, remote, fresh, tasks, previews>>

OthersCommit ==
  /\ index # Last(Tip) /\ Len(Tip) < MaxCommits
  /\ tips' = [tips EXCEPT ![ref] = Append(@, index)]
  /\ queue' = [b \in Brokers |-> Raced(queue[b])]
  /\ UNCHANGED <<file, index, ref, remote, fresh, tasks, previews>>

Next ==
  \/ Edit \/ OthersStage \/ OthersCommit \/ TurnBegins \/ TurnEnds \/ TurnAsks
  \/ \E c \in Chats : Preview(c) \/ Allow(c) \/ Deny(c)
  \/ \E b \in Brokers : Check(b) \/ Run(b) \/ RunFails(b)

Spec == Init /\ [][Next]_vars

-----------------------------------------------------------------------------
\* An operation that changes the repository makes exactly what its review showed of it, on
\* the commit and the index it showed, however long it waited for others and whatever they
\* did; but for a change that comes between its check and git.
DoesWhatWasReviewed ==
  [][\A b \in Brokers :
       (/\ queue[b] # <<>> /\ Head(queue[b]).checked /\ ~Head(queue[b]).raced
        /\ queue'[b] = Tail(queue[b]) /\ repo' # repo) =>
         LET m == Head(queue[b]).manifest
         IN  /\ m.kind = "branch" => tips'[m.branch] = m.head
             /\ m.kind = "switch" => ref' = m.branch /\ tips'[ref'] = m.oid /\ file' = Last(m.oid)
             /\ m.kind \in {"stage", "hunk"} => index' = m.file /\ tips'[ref'] = m.head
             /\ m.kind = "commit" => tips'[m.ref] = Append(m.head, m.index) /\ ref' = m.ref
             /\ m.kind = "push" => remote' = m.head]_vars
=============================================================================
