--------------------------- MODULE DependencyPreview ---------------------------
(***************************************************************************)
(* A dependency is added or removed in two operations that are approved    *)
(* one after the other: a preview in a mirror of package.json and the      *)
(* lockfile, and the application of exactly what it proposed               *)
(* (src/runtime/dependency-operations.ts, and the tools of a turn in       *)
(* src/runtime/tools.ts).  The broker with the proposals is in the main    *)
(* process and runs one operation after the other; the user edits the      *)
(* same files.  A content is a number; None is a missing file.             *)
(***************************************************************************)
EXTENDS Naturals, Sequences, FiniteSets

CONSTANTS None,
          MaxProposals,  \* MAX_PROPOSALS
          MaxMade,       \* bound: proposals ever made
          MaxEdits,      \* bound: edits of the user
          MaxTurns       \* bound: turns

Package == 1   \* package.json
Lock == 2      \* what lockPath gives
Files == {Package, Lock}

VARIABLES
  disk,       \* what is in each file
  turn,       \* the turn that runs
  previews,   \* dependencyPreviews of its tools
  tool,       \* the operation a tool has under review, or None
  queue,      \* operations the broker has accepted; it executes the first
  proposals,  \* those made, in order; live, applied or gone
  fresh,      \* contents ever written
  edits,      \* the user's edits
  text,       \* history: what the user last left in each file
  hit,        \* history: files in which an edit came between a check and its write
  sent,       \* history: proposals that were approved and sent to be applied
  torn        \* history: proposals that a crash, or a write that failed twice, cut in two

history == <<text, hit, sent, torn>>
vars == <<disk, turn, previews, tool, queue, proposals, fresh, edits, history>>

Init ==
  /\ disk \in [Files -> {1, None}] /\ disk[Package] = 1
  /\ turn = 1 /\ previews = {} /\ tool = None /\ queue = <<>> /\ proposals = <<>>
  /\ fresh = 1 /\ edits = 0
  /\ text = disk /\ hit = {} /\ sent = {} /\ torn = {}

-----------------------------------------------------------------------------
(* The user, with another program. *)
Job == Head(queue)
Doing(at) == queue # <<>> /\ Job.at = at

Edit(f) ==
  /\ edits < MaxEdits /\ edits' = edits + 1
  /\ \E content \in {1, fresh + 1} \cup (IF f = Lock THEN {None} ELSE {}) :
       /\ content # disk[f]
       /\ fresh' = IF content = fresh + 1 THEN fresh + 1 ELSE fresh
       /\ disk' = [disk EXCEPT ![f] = content]
       /\ text' = [text EXCEPT ![f] = content]
  /\ hit' = IF (Doing("replace") \/ Doing("putBack")) /\ Job.file = f
            THEN hit \cup {f} ELSE hit \ {f}
  /\ UNCHANGED <<turn, previews, tool, queue, proposals, sent, torn>>

-----------------------------------------------------------------------------
(* The tools. *)
Request(kind, id, hash) ==
  [kind |-> kind, id |-> id, turn |-> turn, hash |-> hash, at |-> "asked",
   file |-> Package, bytes |-> [f \in Files |-> None], applied |-> {}]

\* A turn runs one tool at a time, and waits for what the broker does for it.
Free == tool = None /\ \A i \in DOMAIN queue : queue[i].turn # turn

\* preview_dependency_change, createDependencyPreviewManifest.
AskPreview ==
  /\ Free /\ disk[Package] # None
  /\ tool' = Request("preview", 0, disk)
  /\ UNCHANGED <<disk, turn, previews, queue, proposals, fresh, edits, history>>

\* apply_dependency_preview, createDependencyApplyManifest.
AskApply(id) ==
  /\ Free /\ id \in previews
  /\ tool' = Request("apply", id, proposals[id].targets)
  /\ UNCHANGED <<disk, turn, previews, queue, proposals, fresh, edits, history>>

\* The decision; "allow-once" sends the manifest to the broker.
Decide(allow) ==
  /\ tool # None
  /\ tool' = None
  /\ IF allow
     THEN /\ queue' = Append(queue, tool)
          /\ sent' = IF tool.kind = "apply" THEN sent \cup {tool.id} ELSE sent
     ELSE UNCHANGED <<queue, sent>>
  /\ UNCHANGED <<disk, turn, previews, proposals, fresh, edits, text, hit, torn>>

-----------------------------------------------------------------------------
(* The broker. *)
Live == {id \in DOMAIN proposals : proposals[id].status = "live"}
Now(at) == queue' = [queue EXCEPT ![1].at = at]
Done == queue' = Tail(queue)

\* prune: proposals that are past their expiry go, before anything else.
Pruned(gone) ==
  [id \in DOMAIN proposals |->
     IF id \in gone THEN [proposals[id] EXCEPT !.status = "gone"] ELSE proposals[id]]

\* preview: there is room, and the files are those of the manifest.
BeginPreview(gone) ==
  /\ Doing("asked") /\ Job.kind = "preview"
  /\ proposals' = Pruned(gone)
  /\ IF Cardinality(Live \ gone) < MaxProposals /\ disk = Job.hash THEN Now("read") ELSE Done
  /\ UNCHANGED <<disk, turn, previews, tool, fresh, edits, history>>

\* The two files are read one after the other; one the manifest has must still be there.
Unreadable(f) == disk[f] = None /\ Job.hash[f] # None

Read ==
  /\ Doing("read")
  /\ LET f == Job.file
     IN  IF Unreadable(f) THEN Done
         ELSE queue' = [queue EXCEPT ![1].bytes[f] = disk[f],
                                     ![1].file = Lock,
                                     ![1].at = IF f = Lock THEN "run" ELSE "read"]
  /\ UNCHANGED <<disk, turn, previews, tool, proposals, fresh, edits, history>>

\* What a preview may propose: package.json differs in its dependencies, and in nothing else.
Proposed(before) == {<<fresh + 1, lock>> : lock \in {fresh + 1, before[Lock], None}}

\* The package manager ends in its mirror, and changes package.json; or the preview fails:
\* with it, with its timeout, with an abort, or with a change of something else.
Ran ==
  /\ Doing("run")
  /\ Done
  /\ \/ /\ Len(proposals) < MaxMade
        /\ fresh' = fresh + 1
        /\ \E after \in Proposed(Job.bytes) :
             proposals' = Append(proposals,
               [before |-> Job.bytes, after |-> after,
                targets |-> Job.hash, turn |-> Job.turn, status |-> "live"])
        /\ previews' = IF Job.turn = turn THEN previews \cup {Len(proposals) + 1} ELSE previews
     \/ UNCHANGED <<fresh, proposals, previews>>
  /\ UNCHANGED <<disk, turn, tool, edits, history>>

Proposal == proposals[Job.id]

\* apply: the manifest is that of a proposal of the same turn, and the files are still
\* those the preview was asked for.
BeginApply(gone) ==
  /\ Doing("asked") /\ Job.kind = "apply"
  /\ proposals' = Pruned(gone)
  /\ IF /\ Job.id \in Live \ gone
        /\ Proposal.turn = Job.turn
        /\ disk = Job.hash
     THEN Now("check") ELSE Done
  /\ UNCHANGED <<disk, turn, previews, tool, fresh, edits, history>>

\* applyWorkspaceDependencyFile: nothing but the expected content is replaced.
Replaces(f) == disk[f] = Proposal.before[f]

Check ==
  /\ Doing("check")
  /\ \/ Replaces(Job.file) /\ Now("replace")
     \/ Now("rollBack")
  /\ UNCHANGED <<disk, turn, previews, tool, proposals, fresh, edits, history>>

Replace ==
  /\ Doing("replace")
  /\ disk' = [disk EXCEPT ![Job.file] = Proposal.after[Job.file]]
  /\ IF Job.file = Lock
     THEN /\ Done
          /\ proposals' = [proposals EXCEPT ![Job.id].status = "applied"]
          /\ previews' = previews \ {Job.id}
     ELSE /\ queue' = [queue EXCEPT ![1].at = "check", ![1].file = Lock, ![1].applied = {Package}]
          /\ UNCHANGED <<proposals, previews>>
  /\ UNCHANGED <<turn, tool, fresh, edits, history>>

\* What was applied before the failure goes back, if it is still what was applied.
\* Mutant: nothing goes back.
NothingGoesBack == FALSE

GoesBack == Package \in Job.applied

RollBack ==
  /\ Doing("rollBack")
  /\ IF GoesBack /\ disk[Package] = Proposal.after[Package]
     THEN \/ queue' = [queue EXCEPT ![1].at = "putBack", ![1].file = Package] /\ UNCHANGED torn
          \/ Done /\ torn' = torn \cup {Job.id}
     ELSE Done /\ UNCHANGED torn
  /\ UNCHANGED <<disk, turn, previews, tool, proposals, fresh, edits, text, hit, sent>>

PutBack ==
  /\ Doing("putBack")
  /\ disk' = [disk EXCEPT ![Package] = Proposal.before[Package]]
  /\ Done
  /\ UNCHANGED <<turn, previews, tool, proposals, fresh, edits, history>>

-----------------------------------------------------------------------------
(* A turn ends, with the process of its tools; the broker goes on.  The    *)
(* main process ends, and the broker with it.                              *)
TurnEnds ==
  /\ turn < MaxTurns /\ turn' = turn + 1
  /\ previews' = {} /\ tool' = None
  /\ UNCHANGED <<disk, queue, proposals, fresh, edits, history>>

Crash ==
  /\ turn < MaxTurns /\ turn' = turn + 1
  /\ previews' = {} /\ tool' = None /\ queue' = <<>>
  /\ proposals' = Pruned(Live)
  /\ torn' = IF queue # <<>> /\ Job.applied # {} THEN torn \cup {Job.id} ELSE torn
  /\ UNCHANGED <<disk, fresh, edits, text, hit, sent>>

Next ==
  \/ \E f \in Files : Edit(f)
  \/ AskPreview \/ (\E id \in previews : AskApply(id)) \/ (\E allow \in BOOLEAN : Decide(allow))
  \/ \E gone \in SUBSET Live : BeginPreview(gone) \/ BeginApply(gone)
  \/ Read \/ Ran \/ Check \/ Replace \/ RollBack \/ PutBack
  \/ TurnEnds \/ Crash

Spec == Init /\ [][Next]_vars

-----------------------------------------------------------------------------
(* Properties. *)
\* A proposal is applied in both files or in neither: when its application is over and
\* did not succeed, neither file holds what it made, whichever of the files somebody else
\* changed meanwhile; only a crash between the two, or a rollback that failed, leaves half.
\* (dependency-operations.ts 517-532.)
AppliedWhole ==
  \A id \in DOMAIN proposals \ torn :
    LET p == proposals[id]
        under == queue # <<>> /\ Job.kind = "apply" /\ Job.id = id
        made == {f \in Files : p.after[f] \notin {p.before[f], None}}
    IN  p.status # "applied" /\ ~under => \A f \in made : disk[f] # p.after[f]

\* What the user last left in a file is still there, or a proposal that they approved was
\* made from exactly that: an edit between the preview and the approval, between the two
\* files, or before a rollback is never lost, but for one in the instant between the
\* broker's check and its rename.  (dependency-operations.ts 343-365, 510-530.)
EditsSurvive ==
  \A f \in Files \ hit :
    \/ disk[f] = text[f]
    \/ \E id \in sent : proposals[id].before[f] = text[f]
===============================================================================
