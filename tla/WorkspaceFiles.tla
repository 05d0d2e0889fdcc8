---------------------------- MODULE WorkspaceFiles ----------------------------
(***************************************************************************)
(* The files of a workspace: what the tools of a turn do to them           *)
(* (apply_patch in src/runtime/tools.ts and workspace.ts; copy, move,      *)
(* delete and restore in structured-files.ts), through the native broker   *)
(* (native/workspace-broker/src/broker_posix.c), what the main process     *)
(* records of it (database.ts) and reverts (review-service.ts), and the    *)
(* user, who edits the same files with other programs.                     *)
(*                                                                         *)
(* A turn runs one tool at a time.  A call of the broker checks what it    *)
(* replaces right before the rename or unlink that does it: two steps      *)
(* where the user can come between.  A content is a number.                *)
(***************************************************************************)
EXTENDS Naturals, Sequences, SequencesExt, FiniteSets

CONSTANTS Paths,
          None,
          PatchedPaths,  \* bound: paths that are patched
          MaxEntries,    \* MAX_RECOVERY_ENTRIES
          MaxOps,        \* bound: entries ever made in the vault
          MaxMessages,   \* bound: changes on their way at a time
          MaxContents    \* bound: contents ever written

VARIABLES
  disk,      \* the content at each path, or None
  vault,     \* .adrouter-recovery: the entries, each a directory with a record and a payload
  agent,     \* the tool under way, or None
  messages,  \* file.change on their way to the main process
  base,      \* file_baselines of the chat, by path: original, latest
  before,    \* file_mutations: those of mine that were changed
  revert,    \* the revert under way, or None
  fresh,     \* contents written
  mine       \* history: what the user has last left at some path, and was not lost to a
             \* write in a window of the broker, nor to a crash

vars == <<disk, vault, agent, messages, base, before, revert, fresh, mine>>
review == <<messages, base, before, revert>>
user == <<fresh, mine>>

Idle == [at |-> "idle", kind |-> None, source |-> None, dest |-> None,
         hash |-> None, bytes |-> None, id |-> 0, placed |-> FALSE]
NoRevert == [at |-> "idle", path |-> None, expected |-> None, original |-> None]

Init ==
  /\ disk = [p \in Paths |-> None] /\ vault = <<>> /\ agent = Idle /\ messages = <<>>
  /\ base = [p \in PatchedPaths |-> None] /\ before = {} /\ revert = NoRevert
  /\ fresh = 0 /\ mine = {}

-----------------------------------------------------------------------------
(* The calls of the broker. *)
\* broker_write, broker_delete: the last step of a call that expected something else.
Put(p, content, expected) ==
  /\ disk' = [disk EXCEPT ![p] = content]
  /\ mine' = IF disk[p] = expected THEN mine ELSE mine \ {disk[p]}

\* broker_list stops when it has looked at so many entries, directories among them, in
\* whatever order they come: how many files it may give.
Listing(order) ==
  FoldLeft(
    LAMBDA seen, id :
      LET files == (IF vault[id].record # None THEN 1 ELSE 0) + (IF vault[id].stored # None THEN 1 ELSE 0)
          room == IF seen.scanned >= MaxEntries + 1 THEN 0 ELSE MaxEntries - seen.scanned
      IN  [scanned |-> seen.scanned + 1 + files,
           files |-> seen.files + (IF files <= room THEN files ELSE room)],
    [scanned |-> 0, files |-> 0],
    order)

Listings == {Listing(order).files : order \in SetToSeqs(DOMAIN vault)}

-----------------------------------------------------------------------------
(* Copy, move and delete. *)
Goes(at) == agent' = [agent EXCEPT !.at = at]
Undoes(at) == agent' = [Idle EXCEPT !.at = at, !.kind = agent.kind, !.id = agent.id]
Gone == agent' = Idle

\* createStructuredFileManifest, and its approval.
Review(kind, s, d) ==
  /\ agent = Idle /\ disk[s] # None
  /\ kind = "delete" <=> d = None
  /\ d # None => d # s /\ disk[d] = None
  /\ agent' = [Idle EXCEPT !.at = "reviewed", !.kind = kind, !.source = s, !.dest = d, !.hash = disk[s]]
  /\ UNCHANGED <<disk, vault, review, user>>

Structured == agent.kind \in {"copy", "move", "delete"}

\* verifyStructuredTargets, after the approval.
Verify ==
  /\ agent.at = "reviewed" /\ Structured
  /\ IF /\ disk[agent.source] = agent.hash
        /\ agent.dest # None => disk[agent.dest] = None
     THEN agent' = [agent EXCEPT !.at = "verified", !.hash = None] ELSE Gone
  /\ UNCHANGED <<disk, vault, review, user>>

\* The source is looked at again, and then read: its hash is of the one, its bytes of
\* the other.
Snapshot ==
  /\ agent.at = "verified"
  /\ IF disk[agent.source] = None THEN Gone
     ELSE agent' = [agent EXCEPT !.at = "snapshot", !.hash = disk[agent.source]]
  /\ UNCHANGED <<disk, vault, review, user>>

Read ==
  /\ agent.at = "snapshot"
  /\ IF disk[agent.source] = None THEN Gone
     ELSE agent' = IF agent.kind = "copy"
                   THEN [agent EXCEPT !.at = "place", !.bytes = disk[agent.source],
                                      !.source = None, !.hash = None]
                   ELSE [agent EXCEPT !.at = "record", !.bytes = disk[agent.source]]
  /\ UNCHANGED <<disk, vault, review, user>>

\* prepareRecovery: the vault has room, or the operation is refused.
Record ==
  /\ agent.at = "record"
  /\ \E files \in Listings :
       IF files + 2 > MaxEntries THEN Gone /\ UNCHANGED vault
       ELSE /\ Len(vault) < MaxOps
            /\ vault' = Append(vault, [record |-> [path |-> agent.source, hash |-> agent.hash],
                                       stored |-> None])
            /\ agent' = [agent EXCEPT !.at = "store", !.id = Len(vault) + 1, !.hash = None]
  /\ UNCHANGED <<disk, review, user>>

\* The payload has the base name of the source; that of a file named as the record finds
\* the record in its place, and fails.
Store ==
  /\ agent.at = "store"
  /\ vault' = [vault EXCEPT ![agent.id].stored = agent.bytes]
  /\ Goes(IF agent.kind = "move" THEN "place" ELSE "delete")
  /\ UNCHANGED <<disk, review, user>>

\* Nothing is put over another file.
Place ==
  /\ agent.at = "place" /\ disk[agent.dest] = None /\ Goes("placing")
  /\ UNCHANGED <<disk, vault, review, user>>

Placed ==
  /\ agent.at = "placing" /\ Put(agent.dest, agent.bytes, None)
  /\ \/ agent.kind = "copy" /\ Gone
     \/ agent.kind = "move" /\ agent' = [agent EXCEPT !.at = "delete", !.placed = TRUE]
     \/ agent.kind = "restore" /\ Goes("unstore")
  /\ UNCHANGED <<vault, review, fresh>>

\* Mutant: the source goes, whatever it has become.
DeleteUnchecked ==
  /\ agent.at = "delete"
  /\ agent' = [agent EXCEPT !.at = "deleting", !.bytes = disk[agent.source]]
  /\ UNCHANGED <<disk, vault, review, user>>

Delete ==
  /\ agent.at = "delete" /\ disk[agent.source] = agent.bytes /\ Goes("deleting")
  /\ UNCHANGED <<disk, vault, review, user>>

Deleted ==
  /\ agent.at = "deleting" /\ Put(agent.source, None, agent.bytes) /\ Gone
  /\ UNCHANGED <<vault, review, fresh>>

\* A call fails: what has been done is undone, the destination, the payload, the record.
Fails ==
  /\ agent.at \in {"store", "place", "placing", "delete", "deleting", "unstore", "unrecord", "patching"}
  /\ IF agent.kind \in {"copy", "restore", "patch"} THEN Gone
     ELSE IF agent.placed THEN Goes("undoDestination")
     ELSE Undoes(IF agent.at = "store" THEN "undoRecord" ELSE "undoPayload")
  /\ UNCHANGED <<disk, vault, review, user>>

UndoDestination ==
  /\ agent.at = "undoDestination"
  /\ IF disk[agent.dest] = agent.bytes THEN Goes("undoing") ELSE Undoes("undoPayload")
  /\ UNCHANGED <<disk, vault, review, user>>

UndoingDestination ==
  /\ agent.at = "undoing" /\ Put(agent.dest, None, agent.bytes) /\ Undoes("undoPayload")
  /\ UNCHANGED <<vault, review, fresh>>

\* Each of the two may fail, and is left.
UndoPayload(done) ==
  /\ agent.at = "undoPayload" /\ Goes("undoRecord")
  /\ vault' = IF done THEN [vault EXCEPT ![agent.id].stored = None] ELSE vault
  /\ UNCHANGED <<disk, review, user>>

UndoRecord(done) ==
  /\ agent.at = "undoRecord" /\ Gone
  /\ vault' = IF done THEN [vault EXCEPT ![agent.id].record = None] ELSE vault
  /\ UNCHANGED <<disk, review, user>>

-----------------------------------------------------------------------------
(* Restore. *)
Restorable(id) ==
  /\ vault[id].record # None /\ vault[id].stored = vault[id].record.hash
  /\ disk[vault[id].record.path] = None

ReviewRestore(id) ==
  /\ agent = Idle /\ Restorable(id)
  /\ agent' = [Idle EXCEPT !.at = "reviewed", !.kind = "restore", !.dest = vault[id].record.path,
                           !.bytes = vault[id].stored, !.id = id]
  /\ UNCHANGED <<disk, vault, review, user>>

VerifyRestore ==
  /\ agent.at = "reviewed" /\ agent.kind = "restore"
  /\ IF Restorable(agent.id) THEN Goes("place") ELSE Gone
  /\ UNCHANGED <<disk, vault, review, user>>

Unstore ==
  /\ agent.at = "unstore" /\ Goes("unrecord")
  /\ vault' = [vault EXCEPT ![agent.id].stored = None]
  /\ UNCHANGED <<disk, review, user>>

Unrecord ==
  /\ agent.at = "unrecord" /\ Gone
  /\ vault' = [vault EXCEPT ![agent.id].record = None]
  /\ UNCHANGED <<disk, review, user>>

-----------------------------------------------------------------------------
(* apply_patch, and what the main process makes of it. *)
\* The agent has read the file, or found none, and the user approves the patch.
AskPatch(p, delete) ==
  /\ agent = Idle /\ fresh < MaxContents /\ Len(messages) < MaxMessages
  /\ delete => disk[p] # None
  /\ agent' = [Idle EXCEPT !.at = "asked", !.kind = "patch", !.source = p, !.hash = disk[p],
                           !.bytes = IF delete THEN None ELSE fresh + 1]
  /\ fresh' = IF delete THEN fresh ELSE fresh + 1
  /\ UNCHANGED <<disk, vault, review, mine>>

\* applyWorkspacePatch.
Patch ==
  /\ agent.at = "asked"
  /\ IF disk[agent.source] = agent.hash THEN Goes("patching") ELSE Gone
  /\ UNCHANGED <<disk, vault, review, user>>

Patched ==
  /\ agent.at = "patching" /\ Put(agent.source, agent.bytes, agent.hash) /\ Gone
  /\ messages' = Append(messages, [path |-> agent.source, before |-> agent.hash, after |-> agent.bytes])
  /\ UNCHANGED <<vault, base, before, revert, fresh>>

\* recordFileMutation: the original is that of the first change.
RecordMutation ==
  /\ messages # <<>>
  /\ LET m == Head(messages)
     IN  /\ base' = [base EXCEPT ![m.path] =
                       IF @ = None THEN [original |-> m.before, latest |-> m.after]
                       ELSE [@ EXCEPT !.latest = m.after]]
         /\ before' = before \cup ({m.before} \cap mine)
  /\ messages' = Tail(messages)
  /\ UNCHANGED <<disk, vault, agent, revert, user>>

\* revertFile: nothing is in its way while a turn runs.
Revert(p) ==
  /\ revert = NoRevert /\ base[p] # None /\ disk[p] = base[p].latest
  /\ revert' = [at |-> "writing", path |-> p, expected |-> disk[p], original |-> base[p].original]
  /\ UNCHANGED <<disk, vault, agent, messages, base, before, user>>

RevertWrites ==
  /\ revert.at = "writing" /\ Put(revert.path, revert.original, revert.expected)
  /\ revert' = [revert EXCEPT !.at = "recording"]
  /\ UNCHANGED <<vault, agent, messages, base, before, fresh>>

RevertRecords ==
  /\ revert.at = "recording" /\ revert' = NoRevert
  /\ base' = [base EXCEPT ![revert.path].latest = revert.original]
  /\ UNCHANGED <<disk, vault, agent, messages, before, user>>

-----------------------------------------------------------------------------
UserWrites(p) ==
  /\ fresh < MaxContents /\ fresh' = fresh + 1
  /\ disk' = [disk EXCEPT ![p] = fresh + 1]
  /\ mine' = (mine \ {disk[p]}) \cup {fresh + 1}
  /\ UNCHANGED <<vault, agent, review>>

UserDeletes(p) ==
  /\ disk[p] # None /\ disk' = [disk EXCEPT ![p] = None]
  /\ mine' = mine \ {disk[p]}
  /\ UNCHANGED <<vault, agent, review, fresh>>

\* The application ends: what was under way stays as it is, what was on its way is lost.
Crash ==
  /\ agent # Idle \/ revert # NoRevert \/ messages # <<>>
  /\ agent' = Idle /\ revert' = NoRevert /\ messages' = <<>>
  /\ mine' = mine \ {messages[i].before : i \in DOMAIN messages}
  /\ UNCHANGED <<disk, vault, base, before, fresh>>

Next ==
  \/ Verify \/ Snapshot \/ Read \/ Record \/ Store \/ Place \/ Placed \/ Delete \/ Deleted
  \/ Fails \/ UndoDestination \/ UndoingDestination
  \/ VerifyRestore \/ Unstore \/ Unrecord
  \/ Patch \/ Patched \/ RecordMutation \/ RevertWrites \/ RevertRecords \/ Crash
  \/ \E done \in BOOLEAN : UndoPayload(done) \/ UndoRecord(done)
  \/ \E id \in DOMAIN vault : ReviewRestore(id)
  \/ \E p \in PatchedPaths : Revert(p) \/ \E delete \in BOOLEAN : AskPatch(p, delete)
  \/ \E p \in Paths :
       \/ UserWrites(p) \/ UserDeletes(p)
       \/ \E kind \in {"copy", "move", "delete"}, d \in Paths \cup {None} : Review(kind, p, d)

Spec == Init /\ [][Next]_vars

-----------------------------------------------------------------------------
\* What the user has left in a file is never lost, whatever the tools and reverts do to
\* it, fail at, or leave half done: it is in a file, in the vault, or in the records of
\* the chat; but for what is written in the instant between a check and its rename, and
\* for changes that a crash keeps from being recorded.
NothingIsLost ==
  mine \subseteq
    {disk[p] : p \in Paths} \cup {vault[id].stored : id \in DOMAIN vault}
      \cup before \cup {messages[i].before : i \in DOMAIN messages}
=============================================================================
