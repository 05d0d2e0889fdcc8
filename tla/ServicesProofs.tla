---------------------------- MODULE ServicesProofs ----------------------------
(***************************************************************************)
(* Why a signed request runs once: while it can still be admitted, its     *)
(* nonce is among the live ones.  And why nothing the user has left in a   *)
(* file is lost: what a step takes from one place is in another, which the *)
(* same step leaves alone.  And why the context of a chat is always its    *)
(* journal projected: by induction over the events that a start projects,  *)
(* and over the transactions that append one each.                         *)
(***************************************************************************)
EXTENDS MCServices, TLAPS, SequenceTheorems, WellFoundedInduction

\* The nonce that r left, which outlives the minutes in which r is admitted.
Remembered(r) ==
  \E n \in live : n.key = r.key /\ n.nonce = r.nonce /\ n.until > r.at + Skew
TooOld(r) == clock > r.at + Skew

Entry == [key : Keys, nonce : Nonces, until : Nat]

Typed ==
  /\ clock \in Nat
  /\ live \subseteq Entry
  /\ runs \in [Requests -> {0, 1}]

RunsOnceInv ==
  /\ Typed
  /\ \A r \in Requests : runs[r] = 1 => Remembered(r) \/ TooOld(r)

\* Pruning forgets the nonce of a request only when the request is too old.
LEMMA PruningIsSafe ==
  ASSUME NEW k \in Keys, NEW r \in Requests, Typed, Remembered(r) \/ TooOld(r)
  PROVE  \/ TooOld(r)
         \/ \E n \in Unexpired(k) : n.key = r.key /\ n.nonce = r.nonce /\ n.until > r.at + Skew
<1>1. r.at \in Nat /\ Skew \in Nat
  BY TimesAssumption DEF Requests, Minutes
<1>2. CASE TooOld(r)
  BY <1>2
<1>3. CASE Remembered(r)
  <2>1. PICK n \in live : n.key = r.key /\ n.nonce = r.nonce /\ n.until > r.at + Skew
    BY <1>3 DEF Remembered
  <2>2. n.until \in Nat
    BY <2>1 DEF Typed, Entry
  <2>3. CASE n \in Unexpired(k)
    BY <2>1, <2>3
  <2>4. CASE n \notin Unexpired(k)
    <3>1. ~(n.until > clock)
      BY <2>1, <2>4 DEF Unexpired
    <3>2. TooOld(r)
      BY <3>1, <2>1, <2>2, <1>1 DEF TooOld, Typed
    <3> QED BY <3>2
  <2> QED BY <2>3, <2>4
<1> QED BY <1>2, <1>3

\* Admitting a request keeps the invariant, whether it runs or its nonce is known.
LEMMA AdmitKeeps ==
  ASSUME RunsOnceInv, NEW q \in Requests, Admit(q)
  PROVE  RunsOnceInv'
<1> DEFINE others == Unexpired(q.key)
           new == [key |-> q.key, nonce |-> q.nonce, until |-> clock + NonceLife]
<1>1. /\ q.key \in Keys /\ q.nonce \in Nonces /\ q.at \in Nat
      /\ Skew \in Nat /\ NonceLife \in Nat /\ NonceLife > 2 * Skew
      /\ clock \in Nat /\ clock' = clock
  BY TimesAssumption DEF Requests, Minutes, RunsOnceInv, Typed, Admit
<1>2. others \subseteq live /\ live \subseteq Entry
  BY DEF Unexpired, RunsOnceInv, Typed
<1>3. WithinSkew(q)
  BY DEF Admit, Admitted
<1>4. CASE live' = others /\ UNCHANGED runs
  <2>1. Typed'
    BY <1>4, <1>1, <1>2 DEF RunsOnceInv, Typed
  <2>2. ASSUME NEW r \in Requests, runs'[r] = 1
        PROVE  Remembered(r)' \/ TooOld(r)'
    BY <2>2, <1>1, <1>4, PruningIsSafe DEF RunsOnceInv, Remembered, TooOld
  <2> QED BY <2>1, <2>2 DEF RunsOnceInv
<1>5. CASE /\ ~ \E n \in others : n.key = q.key /\ n.nonce = q.nonce
           /\ live' = others \cup {new}
           /\ runs' = [runs EXCEPT ![q] = @ + 1]
  <2>1. new \in Entry
    BY <1>1 DEF Entry
  <2>2. runs[q] = 0
    <3>1. ~TooOld(q)
      BY <1>1, <1>3 DEF WithinSkew, TooOld
    <3>2. runs[q] # 1
      BY <3>1, <1>1, <1>5, PruningIsSafe DEF RunsOnceInv
    <3> QED BY <3>2 DEF RunsOnceInv, Typed
  <2>3. Typed'
    BY <2>1, <2>2, <1>1, <1>2, <1>5 DEF RunsOnceInv, Typed
  <2>4. Remembered(q)'
    <3>1. new.until > q.at + Skew
      BY <1>1, <1>3 DEF WithinSkew
    <3> QED BY <3>1, <1>5 DEF Remembered
  <2>5. ASSUME NEW r \in Requests, runs'[r] = 1
        PROVE  Remembered(r)' \/ TooOld(r)'
    <3>1. CASE r = q
      BY <3>1, <2>4
    <3>2. CASE r # q
      <4>1. runs[r] = 1
        BY <3>2, <2>5, <1>5 DEF RunsOnceInv, Typed
      <4>2. Remembered(r) \/ TooOld(r)
        BY <4>1 DEF RunsOnceInv
      <4> QED BY <4>2, <1>1, <1>5, PruningIsSafe DEF RunsOnceInv, Remembered, TooOld
    <3> QED BY <3>1, <3>2
  <2> QED BY <2>3, <2>5 DEF RunsOnceInv
<1> QED BY <1>4, <1>5 DEF Admit

LEMMA InitRunsOnce == Init => RunsOnceInv
BY DEF Init, RunsOnceInv, Typed, Entry

\* Time makes requests older; a restart forgets the nonces and what was run alike.
LEMMA StepRunsOnce == RunsOnceInv /\ [Next]_vars => RunsOnceInv'
<1> SUFFICES ASSUME RunsOnceInv, [Next]_vars PROVE RunsOnceInv'
  OBVIOUS
<1>1. CASE Tick
  <2>1. Typed' /\ UNCHANGED <<live, runs>> /\ clock' = clock + 1
    BY <1>1 DEF Tick, requests, RunsOnceInv, Typed
  <2>2. ASSUME NEW r \in Requests, runs'[r] = 1
        PROVE  Remembered(r)' \/ TooOld(r)'
    <3>1. r.at \in Nat /\ Skew \in Nat /\ clock \in Nat
      BY TimesAssumption DEF Requests, Minutes, RunsOnceInv, Typed
    <3> QED BY <2>1, <2>2, <3>1 DEF RunsOnceInv, Remembered, TooOld
  <2> QED BY <2>1, <2>2 DEF RunsOnceInv
<1>2. CASE Restart
  BY <1>2 DEF Restart, RunsOnceInv, Typed, Entry
<1>3. ASSUME NEW r \in Requests, Admit(r) PROVE RunsOnceInv'
  BY <1>3, AdmitKeeps
<1>4. CASE UNCHANGED <<clock, live, runs>>
  BY <1>4 DEF RunsOnceInv, Typed, Remembered, TooOld
<1>5. ASSUME NEW p \in Pairings, Approve(p) \/ Deny(p) PROVE RunsOnceInv'
  BY <1>5, <1>4 DEF Approve, Deny, requests
<1>6. ASSUME NEW k \in Keys,
             \/ Revoke(k) \/ Generate(k) \/ Poll(k) \/ Bind(k) \/ GiveUp(k) \/ Discard(k)
             \/ \E p \in Pairings, lost \in BOOLEAN : Ask(k, p, lost)
      PROVE  RunsOnceInv'
  BY <1>6, <1>4 DEF Revoke, Generate, Poll, Bind, GiveUp, Discard, Ask, requests
<1>7. CASE UNCHANGED vars
  BY <1>7, <1>4 DEF vars, requests
<1> QED BY <1>1, <1>2, <1>3, <1>5, <1>6, <1>7 DEF Next

\* For every length of the skew and of the life of a nonce that is more than twice as
\* long, and any number of keys and nonces: a process runs a signed request once.
THEOREM SignedRequestsRunOnce == Spec => []RunsOnce
<1>1. RunsOnceInv => RunsOnce
  BY DEF RunsOnceInv, Typed, RunsOnce
<1> QED BY <1>1, InitRunsOnce, StepRunsOnce, PTL DEF Spec

-----------------------------------------------------------------------------
(* Files: nothing of the user's is lost.                                      *)
Contents == Nat \cup {None}
Places == FilePaths \cup {None}
Vaulted == [record : [path : FilePaths, hash : Contents] \cup {None}, stored : Contents]
Phases ==
  {"idle", "reviewed", "verified", "snapshot", "record", "store", "place", "placing",
   "delete", "deleting", "undoDestination", "undoing", "undoPayload", "undoRecord",
   "unstore", "unrecord", "asked", "patching"}
Tools ==
  [at : Phases, kind : {"copy", "move", "delete", "restore", "patch", None}, source : Places,
   dest : Places, hash : Contents, bytes : Contents, id : Nat, placed : BOOLEAN]
Changes == [path : FilesPatched, before : Contents, after : Contents]
Baselines == [original : Contents, latest : Contents]
Reverts ==
  [at : {"idle", "writing", "recording"}, path : FilesPatched \cup {None},
   expected : Contents, original : Contents]

FileTypes ==
  /\ files_disk \in [FilePaths -> Contents]
  /\ files_vault \in Seq(Vaulted)
  /\ files_agent \in Tools
  /\ files_messages \in Seq(Changes)
  /\ files_base \in [FilesPatched -> Baselines \cup {None}]
  /\ files_revert \in Reverts
  /\ files_revert.at # "idle" =>
       files_revert.path \in FilesPatched /\ files_base[files_revert.path] \in Baselines
  /\ files_fresh \in Nat
  /\ files_mine \subseteq 1..files_fresh

\* The chat has a baseline of the file, as it has of one that is being reverted.
Based(p) == files_base[p] # None \/ (files_revert.at # "idle" /\ files_revert.path = p)

\* What is yet to be written has a larger number, so that nobody holds it.
Known(content) == content \in Nat => content <= files_fresh
ContentsKnown ==
  /\ \A p \in FilePaths : Known(files_disk[p])
  /\ Known(files_agent.bytes)
  /\ \A i \in DOMAIN files_vault : Known(files_vault[i].stored)
  /\ \A i \in DOMAIN files_messages :
       Known(files_messages[i].before) /\ Known(files_messages[i].after)
  /\ \A p \in FilesPatched : Based(p) =>
       Known(files_base[p].original) /\ Known(files_base[p].latest)
  /\ Known(files_revert.expected) /\ Known(files_revert.original)

\* What each phase of a tool is about.
Aimed(a) ==
  /\ a.kind \in {"copy", "move", "delete"} /\ a.source \in FilePaths
  /\ (a.kind = "delete" <=> a.dest = None) /\ a.dest # a.source
Takes(a) ==
  /\ a.kind \in {"move", "delete"} /\ a.source \in FilePaths
  /\ IF a.kind = "move" THEN a.dest \in FilePaths ELSE a.dest = None
Holds(a) == a.id \in DOMAIN files_vault /\ files_vault[a.id].stored = a.bytes

ToolOK(a) ==
  /\ a.at = "reviewed" =>
       ~a.placed /\ IF a.kind = "restore" THEN a.dest \in FilePaths /\ Holds(a) ELSE Aimed(a)
  /\ a.at \in {"verified", "snapshot"} => ~a.placed /\ Aimed(a)
  /\ a.at = "record" => Takes(a) /\ ~a.placed
  /\ a.at = "store" =>
       /\ Takes(a) /\ ~a.placed
       /\ a.id \in DOMAIN files_vault /\ files_vault[a.id].stored = None
  /\ a.at \in {"place", "placing"} =>
       /\ a.kind \in {"copy", "move", "restore"} /\ a.dest \in FilePaths /\ ~a.placed
       /\ a.kind = "move" => Takes(a)
       /\ a.kind # "copy" => Holds(a)
  /\ a.at \in {"delete", "deleting"} => Takes(a) /\ Holds(a) /\ (a.placed <=> a.kind = "move")
  /\ a.at \in {"undoDestination", "undoing"} =>
       a.kind = "move" /\ a.dest \in FilePaths /\ Holds(a)
  /\ a.at \in {"undoPayload", "undoRecord"} =>
       a.kind \in {"move", "delete"} /\ a.dest = None /\ a.id \in DOMAIN files_vault
  /\ a.at \in {"unstore", "unrecord"} => a.kind = "restore" /\ a.id \in DOMAIN files_vault
  /\ a.at \in {"asked", "patching"} =>
       a.kind = "patch" /\ a.source \in FilesPatched /\ Known(a.hash)
  /\ a.kind = "patch" => a.bytes \notin files_mine

\* What has gone to the records of the chat was the user's only if it is kept there.
RecordsOK ==
  /\ \A i \in DOMAIN files_messages : files_messages[i].after \notin files_mine
  /\ \A p \in FilesPatched : Based(p) =>
       {files_base[p].original, files_base[p].latest} \cap files_mine \subseteq files_before
  /\ files_revert.at # "idle" =>
       {files_revert.expected, files_revert.original} \cap files_mine \subseteq files_before

\* Where contents are, but for the vault's entry i and the file d.
Elsewhere(content, i, d) ==
  \/ \E p \in FilePaths \ {d} : files_disk[p] = content
  \/ \E j \in DOMAIN files_vault \ {i} : files_vault[j].stored = content
  \/ content \in files_before
  \/ \E j \in DOMAIN files_messages : files_messages[j].before = content
Somewhere == \A content \in files_mine : Elsewhere(content, 0, None)

Left(a) == IF a.kind = "move" THEN a.dest ELSE None
IsElsewhere(content, a) == content \in files_mine => Elsewhere(content, a.id, Left(a))

\* What is to go into the vault, and what is there and may go again, is elsewhere too: not
\* only at the destination of a move, which may be undone.
Enters(a) == a.at \in {"record", "store"}
Leaves(a) ==
  \/ a.at \in {"place", "placing", "delete", "deleting", "undoDestination", "undoing"}
     /\ a.kind \in {"move", "delete"}
  \/ a.at \in {"undoPayload", "unstore"}
CopyKept(a) ==
  /\ Enters(a) => IsElsewhere(a.bytes, a)
  /\ Leaves(a) => IsElsewhere(files_vault[a.id].stored, a)

FileInv ==
  /\ FileTypes
  /\ ContentsKnown
  /\ ToolOK(files_agent)
  /\ RecordsOK
  /\ Somewhere
  /\ CopyKept(files_agent)

\* When only the tool changes, only what is said of the tool has to be shown.
LEMMA OnlyTheTool ==
  ASSUME FileInv, files_agent' \in Tools, files_fresh' \in Nat, files_fresh <= files_fresh',
         UNCHANGED <<files_disk, files_vault, files_messages, files_base, files_before,
                     files_revert, files_mine>>,
         files_agent'.bytes \in Nat => files_agent'.bytes <= files_fresh',
         ToolOK(files_agent'), CopyKept(files_agent')
  PROVE  FileInv'
<1>1. FileTypes'
  BY DEF FileInv, FileTypes
<1>2. ContentsKnown'
  <2>1. ASSUME NEW x, Known(x) PROVE Known(x)'
    BY <2>1 DEF FileInv, FileTypes, Known
  <2>2. Known(files_agent.bytes)'
    BY DEF Known
  <2> QED BY <2>1, <2>2 DEF FileInv, ContentsKnown, Based
<1>3. ToolOK(files_agent)'
  <2>1. Known(files_agent'.hash) => Known(files_agent.hash)'
    BY DEF FileInv, FileTypes, Tools, Contents, Known
  <2> QED BY <2>1 DEF ToolOK, Holds
<1>4. RecordsOK'
  BY DEF FileInv, RecordsOK, Based
<1>5. Somewhere'
  BY DEF FileInv, Somewhere, Elsewhere
<1>6. CopyKept(files_agent)'
  BY DEF CopyKept, IsElsewhere, Elsewhere, Left
<1> QED BY <1>1, <1>2, <1>3, <1>4, <1>5, <1>6 DEF FileInv

LEMMA MineAreNumbers == FileTypes => None \notin Nat /\ None \notin files_mine
<1>1. \A n \in Nat : 1..n \subseteq Nat
  OBVIOUS
<1> QED BY <1>1, FilesAssumption DEF FileTypes

\* A tool that has ended is about nothing.
LEMMA IdleIsFine ==
  ASSUME FileTypes
  PROVE  /\ Files!Idle \in Tools /\ ToolOK(Files!Idle) /\ CopyKept(Files!Idle)
         /\ Files!Idle.bytes = None
<1>1. None \notin Nat /\ None \notin files_mine
  BY MineAreNumbers
<1>2. PICK a : a = Files!Idle
  OBVIOUS
<1>3. a \in Tools /\ a.bytes = None /\ a.at = "idle"
  BY <1>2 DEF Files!Idle, Tools, Phases, Contents, Places
<1>4. ToolOK(a)
  BY <1>1, <1>3 DEF ToolOK
<1>5. CopyKept(a)
  BY <1>3 DEF CopyKept, Enters, Leaves
<1> QED BY <1>2, <1>3, <1>4, <1>5

\* All but the tool rests.
Rest ==
  UNCHANGED <<files_disk, files_vault, files_messages, files_base, files_before,
              files_revert, files_fresh, files_mine>>

LEMMA ToolEnds == ASSUME FileInv, files_agent' = Files!Idle, Rest PROVE FileInv'
BY OnlyTheTool, IdleIsFine, FilesAssumption DEF FileInv, FileTypes, Rest

\* The tool goes to another phase, about what it was about.
LEMMA ToolGoes ==
  ASSUME FileInv, NEW at \in Phases, files_agent' = [files_agent EXCEPT !.at = at], Rest,
         ToolOK(files_agent'), CopyKept(files_agent')
  PROVE  FileInv'
<1>1. files_agent' \in Tools /\ files_agent'.bytes = files_agent.bytes
  BY DEF FileInv, FileTypes, Tools
<1> QED BY <1>1, OnlyTheTool DEF FileInv, FileTypes, ContentsKnown, Known, Rest

\* The tool goes back on what it did, of which it keeps the entry of the vault.
LEMMA ToolUndoes ==
  ASSUME FileInv, NEW at \in {"undoPayload", "undoRecord"}, Files!Undoes(at), Rest,
         files_agent.kind \in {"move", "delete"}, files_agent.id \in DOMAIN files_vault,
         CopyKept(files_agent')
  PROVE  FileInv'
<1> DEFINE a == files_agent'
<1>1. /\ a \in Tools /\ a.bytes = None /\ a.at = at /\ a.dest = None
      /\ a.kind = files_agent.kind /\ a.id = files_agent.id
  BY DEF FileInv, FileTypes, Tools, Phases, Places, Contents, Files!Undoes, Files!Idle
<1>2. None \notin Nat /\ ToolOK(a)
  BY <1>1, FilesAssumption DEF ToolOK
<1> QED BY <1>1, <1>2, OnlyTheTool DEF FileInv, FileTypes, Rest

-----------------------------------------------------------------------------
(* The steps of a tool that change nothing but the tool.                      *)
LEMMA ReviewKeeps ==
  ASSUME FileInv, NEW kind \in {"copy", "move", "delete"}, NEW s \in FilePaths,
         NEW d \in FilePaths \cup {None}, Files!Review(kind, s, d)
  PROVE  FileInv'
<1> DEFINE a == files_agent'
<1>1. /\ a \in Tools /\ a.at = "reviewed" /\ a.kind = kind /\ a.source = s /\ a.dest = d
      /\ a.bytes = None /\ ~a.placed
  BY DEF Files!Review, Files!Idle, FileInv, FileTypes, Tools, Phases, Places, Contents
<1>2. Rest /\ (kind = "delete" <=> d = None) /\ d # s
  BY FilesAssumption DEF Files!Review, Files!review, Files!user, Rest
<1>3. ToolOK(a) /\ CopyKept(a)
  BY <1>1, <1>2 DEF ToolOK, Aimed, CopyKept, Enters, Leaves
<1> QED BY <1>1, <1>2, <1>3, OnlyTheTool, FilesAssumption DEF FileInv, FileTypes, Rest

LEMMA VerifyKeeps == ASSUME FileInv, Files!Verify PROVE FileInv'
<1> DEFINE a == files_agent'
<1>1. Rest /\ files_agent \in Tools /\ ToolOK(files_agent) /\ files_agent.at = "reviewed"
      /\ files_agent.kind \in {"copy", "move", "delete"}
  BY DEF Files!Verify, Files!Structured, Files!review, Files!user, Rest, FileInv, FileTypes
<1>2. CASE a = [files_agent EXCEPT !.at = "verified", !.hash = None]
  <2>1. /\ a \in Tools /\ a.at = "verified" /\ a.bytes = files_agent.bytes
        /\ a.kind = files_agent.kind /\ a.source = files_agent.source
        /\ a.dest = files_agent.dest /\ a.placed = files_agent.placed
    BY <1>1, <1>2 DEF Tools, Phases, Contents
  <2>2. ToolOK(a) /\ CopyKept(a)
    BY <1>1, <2>1 DEF ToolOK, Aimed, CopyKept, Enters, Leaves
  <2> QED BY <1>1, <2>1, <2>2, OnlyTheTool DEF FileInv, FileTypes, ContentsKnown, Known, Rest
<1>3. CASE a = Files!Idle
  BY <1>1, <1>3, ToolEnds
<1> QED BY <1>2, <1>3 DEF Files!Verify, Files!Gone

LEMMA SnapshotKeeps == ASSUME FileInv, Files!Snapshot PROVE FileInv'
<1> DEFINE a == files_agent'
<1>1. Rest /\ files_agent \in Tools /\ ToolOK(files_agent) /\ files_agent.at = "verified"
  BY DEF Files!Snapshot, Files!review, Files!user, Rest, FileInv, FileTypes
<1>2. CASE a = [files_agent EXCEPT !.at = "snapshot", !.hash = files_disk[files_agent.source]]
  <2>1. files_disk[files_agent.source] \in Contents
    BY <1>1 DEF ToolOK, Aimed, FileInv, FileTypes
  <2>2. /\ a \in Tools /\ a.at = "snapshot" /\ a.bytes = files_agent.bytes
        /\ a.kind = files_agent.kind /\ a.source = files_agent.source
        /\ a.dest = files_agent.dest /\ a.placed = files_agent.placed
    BY <1>1, <1>2, <2>1 DEF Tools, Phases
  <2>3. ToolOK(a) /\ CopyKept(a)
    BY <1>1, <2>2 DEF ToolOK, Aimed, CopyKept, Enters, Leaves
  <2>4. a.bytes \in Nat => a.bytes <= files_fresh'
    BY <1>1, <2>2 DEF FileInv, ContentsKnown, Known, Rest
  <2>5. files_fresh' \in Nat /\ files_fresh <= files_fresh'
    BY <1>1 DEF FileInv, FileTypes, Rest
  <2> QED BY <1>1, <2>2, <2>3, <2>4, <2>5, OnlyTheTool DEF Rest
<1>3. CASE a = Files!Idle
  BY <1>1, <1>3, ToolEnds
<1> QED BY <1>2, <1>3 DEF Files!Snapshot, Files!Gone

\* What is read to go into the vault is in the source, which is not the destination.
LEMMA ReadKeeps == ASSUME FileInv, Files!Read PROVE FileInv'
<1> DEFINE a == files_agent'
           found == files_disk[files_agent.source]
<1>1. /\ Rest /\ files_agent \in Tools /\ ToolOK(files_agent) /\ files_agent.at = "snapshot"
      /\ Aimed(files_agent) /\ ~files_agent.placed
  BY DEF Files!Read, Files!review, Files!user, Rest, FileInv, FileTypes, ToolOK
<1>2. /\ found \in Contents /\ Known(found)
      /\ \E p \in FilePaths \ {files_agent.dest} : files_disk[p] = found
  BY <1>1 DEF Aimed, FileInv, FileTypes, ContentsKnown
<1>3. CASE a = Files!Idle
  BY <1>1, <1>3, ToolEnds
<1>4. CASE files_agent.kind = "copy"
           /\ a = [files_agent EXCEPT !.at = "place", !.bytes = found, !.source = None,
                                      !.hash = None]
  <2>1. /\ a \in Tools /\ a.at = "place" /\ a.bytes = found /\ a.kind = "copy"
        /\ a.dest = files_agent.dest /\ ~a.placed
    BY <1>1, <1>2, <1>4 DEF Tools, Phases, Contents, Places
  <2>2. a.dest \in FilePaths
    BY <1>1, <1>4, <2>1 DEF Aimed, Tools, Places
  <2>3. ToolOK(a) /\ CopyKept(a)
    BY <2>1, <2>2 DEF ToolOK, CopyKept, Enters, Leaves
  <2> QED BY <1>1, <1>2, <2>1, <2>3, OnlyTheTool DEF FileInv, FileTypes, Known, Rest
<1>5. CASE files_agent.kind # "copy"
           /\ a = [files_agent EXCEPT !.at = "record", !.bytes = found]
  <2>1. /\ a \in Tools /\ a.at = "record" /\ a.bytes = found /\ a.kind = files_agent.kind
        /\ a.source = files_agent.source /\ a.dest = files_agent.dest /\ ~a.placed
    BY <1>1, <1>2, <1>5 DEF Tools, Phases
  <2>2. Takes(a) /\ a.dest \in Places
    BY <1>1, <1>5, <2>1 DEF Aimed, Takes, Tools, Places
  <2>3. \E p \in FilePaths \ {Left(a)} : files_disk[p] = found
    BY <1>1, <1>2, <2>1, <2>2, FilesAssumption DEF Takes, Left
  <2>4. ToolOK(a)
    BY <2>1, <2>2 DEF ToolOK, Takes
  <2>5. CopyKept(a)
    <3>1. Enters(a) /\ ~Leaves(a)
      BY <2>1 DEF Enters, Leaves
    <3> QED BY <2>1, <2>3, <3>1 DEF CopyKept, IsElsewhere, Elsewhere
  <2> QED BY <1>1, <1>2, <2>1, <2>4, <2>5, OnlyTheTool DEF FileInv, FileTypes, Known, Rest
<1> QED BY <1>3, <1>4, <1>5 DEF Files!Read, Files!Gone

\* Steps that only go to the next phase.
LEMMA PlaceKeeps == ASSUME FileInv, Files!Place PROVE FileInv'
<1>1. /\ Rest /\ files_agent \in Tools /\ ToolOK(files_agent) /\ CopyKept(files_agent)
      /\ files_agent.at = "place" /\ files_agent' = [files_agent EXCEPT !.at = "placing"]
  BY DEF Files!Place, Files!Goes, Files!review, Files!user, Rest, FileInv, FileTypes
<1> DEFINE a == files_agent'
<1>2. /\ a.at = "placing" /\ a.kind = files_agent.kind /\ a.source = files_agent.source
      /\ a.dest = files_agent.dest /\ a.placed = files_agent.placed
      /\ a.id = files_agent.id /\ a.bytes = files_agent.bytes
  BY <1>1 DEF Tools
<1>3. ToolOK(a)
  BY <1>1, <1>2 DEF ToolOK, Holds, Takes
<1>4. CopyKept(a)
  BY <1>1, <1>2 DEF CopyKept, Enters, Leaves, IsElsewhere, Left
<1> QED BY <1>1, <1>3, <1>4, ToolGoes DEF Phases

LEMMA DeleteKeeps == ASSUME FileInv, Files!Delete PROVE FileInv'
<1>1. /\ Rest /\ files_agent \in Tools /\ ToolOK(files_agent) /\ CopyKept(files_agent)
      /\ files_agent.at = "delete" /\ files_agent' = [files_agent EXCEPT !.at = "deleting"]
  BY DEF Files!Delete, Files!Goes, Files!review, Files!user, Rest, FileInv, FileTypes
<1> DEFINE a == files_agent'
<1>2. /\ a.at = "deleting" /\ a.kind = files_agent.kind /\ a.source = files_agent.source
      /\ a.dest = files_agent.dest /\ a.placed = files_agent.placed
      /\ a.id = files_agent.id /\ a.bytes = files_agent.bytes
  BY <1>1 DEF Tools
<1>3. ToolOK(a)
  BY <1>1, <1>2 DEF ToolOK, Holds, Takes
<1>4. CopyKept(a)
  BY <1>1, <1>2 DEF CopyKept, Enters, Leaves, IsElsewhere, Left
<1> QED BY <1>1, <1>3, <1>4, ToolGoes DEF Phases

LEMMA PatchKeeps == ASSUME FileInv, Files!Patch PROVE FileInv'
<1>1. /\ Rest /\ files_agent \in Tools /\ ToolOK(files_agent) /\ files_agent.at = "asked"
      /\ files_agent' \in {Files!Idle, [files_agent EXCEPT !.at = "patching"]}
  BY DEF Files!Patch, Files!Goes, Files!Gone, Files!review, Files!user, Rest, FileInv, FileTypes
<1> DEFINE a == files_agent'
<1>2. CASE a = Files!Idle
  BY <1>1, <1>2, ToolEnds
<1>3. CASE a = [files_agent EXCEPT !.at = "patching"]
  <2>1. /\ a.at = "patching" /\ a.kind = files_agent.kind /\ a.source = files_agent.source
        /\ a.bytes = files_agent.bytes /\ a.hash = files_agent.hash
    BY <1>1, <1>3 DEF Tools
  <2>2. ToolOK(a) /\ CopyKept(a)
    BY <1>1, <2>1 DEF ToolOK, CopyKept, Enters, Leaves
  <2> QED BY <1>1, <1>3, <2>2, ToolGoes DEF Phases
<1> QED BY <1>1, <1>2, <1>3

\* What is asked to be written is new, or nothing.
LEMMA AskPatchKeeps ==
  ASSUME FileInv, NEW p \in FilesPatched, NEW delete \in BOOLEAN, Files!AskPatch(p, delete)
  PROVE  FileInv'
<1> DEFINE a == files_agent'
           asked == IF delete THEN None ELSE files_fresh + 1
<1>1. files_disk[p] \in Contents /\ files_fresh \in Nat /\ asked \in Contents /\ p \in Places
  BY FilesAssumption DEF FileInv, FileTypes, Contents, Places
<1>2. /\ a \in Tools /\ a.at = "asked" /\ a.kind = "patch" /\ a.source = p
      /\ a.bytes = asked /\ a.hash = files_disk[p]
  BY <1>1 DEF Files!AskPatch, Files!Idle, Tools, Phases, Places, Contents
<1>3. files_fresh' = IF delete THEN files_fresh ELSE files_fresh + 1
  BY DEF Files!AskPatch
<1>4. /\ files_fresh' \in Nat /\ files_fresh <= files_fresh'
      /\ asked \in Nat => asked <= files_fresh'
  BY <1>1, <1>3, FilesAssumption
<1>5. asked \notin files_mine
  <2>1. files_fresh + 1 \notin 1..files_fresh
    BY <1>1
  <2> QED BY <2>1, MineAreNumbers DEF FileInv, FileTypes
<1>6. ToolOK(a) /\ CopyKept(a)
  BY <1>2, <1>5, FilesAssumption DEF FileInv, ContentsKnown, ToolOK, CopyKept, Enters, Leaves
<1>7. UNCHANGED <<files_disk, files_vault, files_messages, files_base, files_before,
                  files_revert, files_mine>>
  BY DEF Files!AskPatch, Files!review
<1> QED BY <1>2, <1>4, <1>6, <1>7, OnlyTheTool

LEMMA ReviewRestoreKeeps ==
  ASSUME FileInv, NEW id \in DOMAIN files_vault, Files!ReviewRestore(id) PROVE FileInv'
<1> DEFINE a == files_agent'
           entry == files_vault[id]
<1>1. entry \in Vaulted /\ id \in Nat /\ Known(entry.stored)
  BY DEF FileInv, FileTypes, ContentsKnown
<1>2. entry.record # None /\ Rest
  BY DEF Files!ReviewRestore, Files!Restorable, Files!review, Files!user, Rest
<1>3. entry.record.path \in FilePaths /\ entry.stored \in Contents
  BY <1>1, <1>2 DEF Vaulted
<1>4. /\ a \in Tools /\ a.at = "reviewed" /\ a.kind = "restore" /\ a.dest = entry.record.path
      /\ a.bytes = entry.stored /\ a.id = id /\ ~a.placed
  BY <1>1, <1>3 DEF Files!ReviewRestore, Files!Idle, Tools, Phases, Places, Contents
<1>5. ToolOK(a)
  BY <1>1, <1>3, <1>4 DEF ToolOK, Holds
<1>6. CopyKept(a)
  BY <1>4 DEF CopyKept, Enters, Leaves
<1> QED BY <1>1, <1>2, <1>4, <1>5, <1>6, OnlyTheTool DEF FileInv, FileTypes, Known, Rest

LEMMA VerifyRestoreKeeps == ASSUME FileInv, Files!VerifyRestore PROVE FileInv'
<1>1. /\ Rest /\ files_agent \in Tools /\ ToolOK(files_agent) /\ files_agent.at = "reviewed"
      /\ files_agent.kind = "restore"
      /\ files_agent' \in {Files!Idle, [files_agent EXCEPT !.at = "place"]}
  BY DEF Files!VerifyRestore, Files!Goes, Files!Gone, Files!review, Files!user, Rest,
         FileInv, FileTypes
<1> DEFINE a == files_agent'
<1>2. CASE a = Files!Idle
  BY <1>1, <1>2, ToolEnds
<1>3. CASE a = [files_agent EXCEPT !.at = "place"]
  <2>1. /\ a.at = "place" /\ a.kind = files_agent.kind /\ a.dest = files_agent.dest
        /\ a.placed = files_agent.placed /\ a.id = files_agent.id
        /\ a.bytes = files_agent.bytes
    BY <1>1, <1>3 DEF Tools
  <2>2. ToolOK(a)
    BY <1>1, <2>1 DEF ToolOK, Holds
  <2>3. CopyKept(a)
    BY <1>1, <2>1 DEF CopyKept, Enters, Leaves
  <2> QED BY <1>1, <1>3, <2>2, <2>3, ToolGoes DEF Phases
<1> QED BY <1>1, <1>2, <1>3

\* A call that fails, and what is undone of it.
LEMMA FailsKeeps == ASSUME FileInv, Files!Fails PROVE FileInv'
<1> DEFINE b == files_agent
           a == files_agent'
<1>1. Rest /\ b \in Tools /\ ToolOK(b) /\ CopyKept(b)
  BY DEF Files!Fails, Files!review, Files!user, Rest, FileInv, FileTypes
<1>2. b.at \in {"store", "place", "placing", "delete", "deleting", "unstore", "unrecord",
                "patching"}
  BY DEF Files!Fails
<1>3. CASE b.kind \in {"copy", "restore", "patch"}
  BY <1>1, <1>3, ToolEnds DEF Files!Fails, Files!Gone
<1>4. ASSUME b.kind \notin {"copy", "restore", "patch"}
      PROVE  /\ b.kind \in {"move", "delete"} /\ b.id \in DOMAIN files_vault
             /\ b.at # "store" => Leaves(b) /\ b.at \in {"place", "placing", "delete", "deleting"}
             /\ b.placed => b.at \in {"delete", "deleting"} /\ b.kind = "move"
                            /\ b.dest \in FilePaths /\ Holds(b)
  <2>1. b.at \in {"store", "place", "placing", "delete", "deleting"}
    BY <1>1, <1>2, <1>4 DEF ToolOK
  <2>2. CASE b.at = "store"
    BY <1>1, <2>2 DEF ToolOK, Takes
  <2>3. CASE b.at \in {"place", "placing"}
    BY <1>1, <1>4, <2>3 DEF ToolOK, Takes, Holds, Leaves
  <2>4. CASE b.at \in {"delete", "deleting"}
    BY <1>1, <2>4 DEF ToolOK, Takes, Holds, Leaves
  <2> QED BY <2>1, <2>2, <2>3, <2>4
<1>5. CASE b.kind \notin {"copy", "restore", "patch"} /\ b.placed
  <2>1. a = [b EXCEPT !.at = "undoDestination"]
    BY <1>5 DEF Files!Fails, Files!Goes
  <2>2. /\ a.at = "undoDestination" /\ a.kind = b.kind /\ a.dest = b.dest /\ a.id = b.id
        /\ a.bytes = b.bytes
    BY <1>1, <2>1 DEF Tools
  <2>3. ToolOK(a)
    BY <1>4, <1>5, <2>2 DEF ToolOK, Holds
  <2>4. CopyKept(a)
    BY <1>1, <1>4, <1>5, <2>2 DEF CopyKept, Enters, Leaves, IsElsewhere, Left
  <2> QED BY <1>1, <2>1, <2>3, <2>4, ToolGoes DEF Phases
<1>6. CASE b.kind \notin {"copy", "restore", "patch"} /\ ~b.placed /\ b.at = "store"
  <2>1. Files!Undoes("undoRecord")
    BY <1>6 DEF Files!Fails
  <2>2. a.at = "undoRecord"
    BY <2>1 DEF Files!Undoes, Files!Idle
  <2>3. CopyKept(a)
    BY <2>2 DEF CopyKept, Enters, Leaves
  <2> QED BY <1>1, <1>4, <1>6, <2>1, <2>3, ToolUndoes
<1>7. CASE b.kind \notin {"copy", "restore", "patch"} /\ ~b.placed /\ b.at # "store"
  <2>1. Files!Undoes("undoPayload")
    BY <1>7 DEF Files!Fails
  <2>2. a.at = "undoPayload" /\ a.dest = None /\ a.kind = b.kind /\ a.id = b.id
    BY <2>1 DEF Files!Undoes, Files!Idle
  <2>3. IsElsewhere(files_vault[b.id].stored, b)
    BY <1>1, <1>4, <1>7 DEF CopyKept
  <2>4. CopyKept(a)
    BY <2>2, <2>3, FilesAssumption DEF CopyKept, Enters, IsElsewhere, Elsewhere, Left
  <2> QED BY <1>1, <1>4, <1>7, <2>1, <2>4, ToolUndoes
<1> QED BY <1>3, <1>5, <1>6, <1>7

LEMMA UndoDestinationKeeps == ASSUME FileInv, Files!UndoDestination PROVE FileInv'
<1> DEFINE b == files_agent
           a == files_agent'
<1>1. /\ Rest /\ b \in Tools /\ ToolOK(b) /\ CopyKept(b) /\ b.at = "undoDestination"
      /\ a = [b EXCEPT !.at = "undoing"] \/ Files!Undoes("undoPayload")
  BY DEF Files!UndoDestination, Files!Goes, Files!review, Files!user, Rest, FileInv, FileTypes
<1>2. b.kind = "move" /\ b.dest \in FilePaths /\ Holds(b) /\ b.id \in DOMAIN files_vault
  BY <1>1 DEF ToolOK, Holds
<1>3. CASE a = [b EXCEPT !.at = "undoing"]
  <2>1. /\ a.at = "undoing" /\ a.kind = b.kind /\ a.dest = b.dest /\ a.id = b.id
        /\ a.bytes = b.bytes
    BY <1>1, <1>3 DEF Tools
  <2>2. ToolOK(a)
    BY <1>2, <2>1 DEF ToolOK, Holds
  <2>3. CopyKept(a)
    BY <1>1, <1>2, <2>1 DEF CopyKept, Enters, Leaves, IsElsewhere, Left
  <2> QED BY <1>1, <1>3, <2>2, <2>3, ToolGoes DEF Phases
<1>4. CASE Files!Undoes("undoPayload")
  <2>1. a.at = "undoPayload" /\ a.dest = None /\ a.kind = b.kind /\ a.id = b.id
    BY <1>4 DEF Files!Undoes, Files!Idle
  <2>2. IsElsewhere(files_vault[b.id].stored, b)
    BY <1>1, <1>2 DEF CopyKept, Leaves
  <2>3. CopyKept(a)
    BY <2>1, <2>2, FilesAssumption DEF CopyKept, Enters, IsElsewhere, Elsewhere, Left
  <2> QED BY <1>1, <1>2, <1>4, <2>3, ToolUndoes
<1> QED BY <1>1, <1>3, <1>4

-----------------------------------------------------------------------------
(* The steps that change the vault.                                           *)
LEMMA OnlyTheVault ==
  ASSUME FileInv, files_agent' \in Tools, Known(files_agent'.bytes),
         UNCHANGED <<files_disk, files_messages, files_base, files_before, files_revert,
                     files_fresh, files_mine>>,
         files_vault' \in Seq(Vaulted),
         \A i \in DOMAIN files_vault' : Known(files_vault'[i].stored),
         Somewhere', ToolOK(files_agent)', CopyKept(files_agent)'
  PROVE  FileInv'
<1>1. FileTypes'
  BY DEF FileInv, FileTypes
<1>2. \A x : Known(x) => Known(x)'
  BY DEF Known
<1>3. ContentsKnown'
  BY <1>2 DEF FileInv, ContentsKnown, Based
<1>4. RecordsOK'
  BY DEF FileInv, RecordsOK, Based
<1> QED BY <1>1, <1>3, <1>4 DEF FileInv

\* An entry is changed, in its record or in its payload.
LEMMA EntryChanges ==
  ASSUME FileInv, NEW id \in DOMAIN files_vault, NEW entry \in Vaulted,
         files_vault' = [files_vault EXCEPT ![id] = entry]
  PROVE  /\ files_vault' \in Seq(Vaulted) /\ DOMAIN files_vault' = DOMAIN files_vault
         /\ files_vault'[id] = entry
         /\ \A i \in DOMAIN files_vault \ {id} : files_vault'[i] = files_vault[i]
BY ExceptSeq DEF FileInv, FileTypes

\* The entry of the tool is the next, with nothing in it yet.
LEMMA RecordKeeps == ASSUME FileInv, Files!Record PROVE FileInv'
<1> DEFINE b == files_agent
           a == files_agent'
           n == Len(files_vault)
           entry == [record |-> [path |-> b.source, hash |-> b.hash], stored |-> None]
<1>1. /\ b \in Tools /\ ToolOK(b) /\ CopyKept(b) /\ b.at = "record" /\ n \in Nat
      /\ UNCHANGED <<files_disk, files_messages, files_base, files_before, files_revert,
                     files_fresh, files_mine>>
  BY DEF Files!Record, Files!review, Files!user, FileInv, FileTypes
<1>2. Takes(b) /\ ~b.placed
  BY <1>1 DEF ToolOK
<1>3. CASE a = Files!Idle /\ UNCHANGED files_vault
  BY <1>1, <1>3, ToolEnds DEF Rest
<1>4. CASE /\ files_vault' = Append(files_vault, entry)
           /\ a = [b EXCEPT !.at = "store", !.id = n + 1, !.hash = None]
  <2>1. entry \in Vaulted
    BY <1>1, <1>2 DEF Takes, Tools, Vaulted, Contents
  <2>2. /\ files_vault' \in Seq(Vaulted) /\ DOMAIN files_vault' = 1..n+1
        /\ DOMAIN files_vault = 1..n
        /\ files_vault'[n+1] = entry /\ \A i \in 1..n : files_vault'[i] = files_vault[i]
    BY <1>4, <2>1, AppendProperties DEF FileInv, FileTypes
  <2>3. /\ a \in Tools /\ a.at = "store" /\ a.kind = b.kind /\ a.source = b.source
        /\ a.dest = b.dest /\ a.bytes = b.bytes /\ a.id = n + 1 /\ ~a.placed
    <3>1. n + 1 \in Nat
      BY <1>1
    <3> HIDE DEF n
    <3> QED BY <1>1, <1>2, <1>4, <3>1 DEF Tools, Phases, Contents
  <2>4. n + 1 \in 1..n+1 /\ n + 1 \notin 1..n /\ 1..n+1 = 1..n \cup {n + 1} /\ 0 \notin 1..n
    BY <1>1
  <2>5. Known(None) /\ \A i \in DOMAIN files_vault' : Known(files_vault'[i].stored)
    BY <2>2, <2>4, FilesAssumption DEF FileInv, ContentsKnown, Known
  <2>6. Somewhere'
    BY <1>1, <2>2, <2>4 DEF FileInv, Somewhere, Elsewhere
  <2>7. ToolOK(files_agent)'
    BY <1>2, <2>2, <2>3, <2>4 DEF ToolOK, Takes
  <2>8. CopyKept(files_agent)'
    <3>1. IsElsewhere(b.bytes, b)
      BY <1>1 DEF CopyKept, Enters
    <3>2. IsElsewhere(files_agent.bytes, files_agent)'
      BY <1>1, <2>2, <2>3, <2>4, <3>1 DEF IsElsewhere, Elsewhere, Left
    <3> QED BY <2>3, <3>2 DEF CopyKept, Leaves
  <2>9. Known(a.bytes)
    BY <2>3 DEF FileInv, ContentsKnown
  <2> QED BY <1>1, <2>2, <2>3, <2>5, <2>6, <2>7, <2>8, <2>9, OnlyTheVault
<1> QED BY <1>3, <1>4 DEF Files!Record, Files!Gone

\* What goes into the entry of the tool is elsewhere too.
LEMMA StoreKeeps == ASSUME FileInv, Files!Store PROVE FileInv'
<1> DEFINE b == files_agent
           a == files_agent'
           entry == [files_vault[b.id] EXCEPT !.stored = b.bytes]
<1>1. /\ b \in Tools /\ ToolOK(b) /\ CopyKept(b) /\ b.at = "store" /\ Known(b.bytes)
      /\ UNCHANGED <<files_disk, files_messages, files_base, files_before, files_revert,
                     files_fresh, files_mine>>
  BY DEF Files!Store, Files!review, Files!user, FileInv, FileTypes, ContentsKnown
<1>2. /\ Takes(b) /\ ~b.placed /\ b.id \in DOMAIN files_vault /\ files_vault[b.id] \in Vaulted
      /\ files_vault[b.id].stored = None
  BY <1>1 DEF ToolOK, FileInv, FileTypes
<1>3. entry \in Vaulted /\ entry.stored = b.bytes
  BY <1>1, <1>2 DEF Tools, Vaulted
<1>4. files_vault' = [files_vault EXCEPT ![b.id] = entry]
  BY DEF Files!Store
<1>5. /\ files_vault' \in Seq(Vaulted) /\ DOMAIN files_vault' = DOMAIN files_vault
      /\ files_vault'[b.id] = entry
      /\ \A i \in DOMAIN files_vault \ {b.id} : files_vault'[i] = files_vault[i]
  BY <1>2, <1>3, <1>4, EntryChanges
<1>6. PICK at \in {"place", "delete"} :
        a = [b EXCEPT !.at = at] /\ (at = "place" <=> b.kind = "move")
  BY DEF Files!Store, Files!Goes
<1>7. /\ a \in Tools /\ a.at = at /\ a.kind = b.kind /\ a.source = b.source
      /\ a.dest = b.dest /\ a.bytes = b.bytes /\ a.id = b.id /\ ~a.placed
  BY <1>1, <1>2, <1>6 DEF Tools, Phases
<1>8. \A i \in DOMAIN files_vault' : Known(files_vault'[i].stored)
  BY <1>1, <1>3, <1>5 DEF FileInv, ContentsKnown
<1>9. Somewhere'
  BY <1>1, <1>2, <1>5, MineAreNumbers DEF FileInv, Somewhere, Elsewhere
<1>10. ToolOK(files_agent)'
  <2>1. Takes(a) /\ Holds(files_agent)'
    BY <1>2, <1>3, <1>5, <1>7 DEF Takes, Holds
  <2> QED BY <1>2, <1>6, <1>7, <2>1 DEF ToolOK, Takes
<1>11. CopyKept(files_agent)'
  <2>1. IsElsewhere(b.bytes, b)
    BY <1>1 DEF CopyKept, Enters
  <2>2. PICK x, i, d : x = b.bytes /\ i = b.id /\ d = Left(b)
    OBVIOUS
  <2>3. x \in files_mine => Elsewhere(x, i, d)'
    <3>1. x \in files_mine => Elsewhere(x, i, d)
      BY <2>1, <2>2 DEF IsElsewhere
    <3> QED BY <1>1, <1>5, <2>2, <3>1 DEF Elsewhere
  <2>4. files_vault'[a.id].stored = x /\ a.id = i /\ Left(a) = d
    BY <1>3, <1>5, <1>7, <2>2 DEF Left
  <2>5. IsElsewhere(files_vault[files_agent.id].stored, files_agent)'
    BY <1>1, <2>3, <2>4 DEF IsElsewhere, Elsewhere, Left
  <2> QED BY <1>6, <1>7, <2>5 DEF CopyKept, Enters
<1> QED BY <1>1, <1>5, <1>7, <1>8, <1>9, <1>10, <1>11, OnlyTheVault

\* What goes from the vault again is elsewhere.
LEMMA PayloadGoes ==
  ASSUME FileInv, NEW at \in {"undoRecord", "unrecord"},
         files_agent.at = IF at = "undoRecord" THEN "undoPayload" ELSE "unstore",
         files_agent' = [files_agent EXCEPT !.at = at],
         files_vault' = [files_vault EXCEPT ![files_agent.id].stored = None],
         UNCHANGED <<files_disk, files_messages, files_base, files_before, files_revert,
                     files_fresh, files_mine>>
  PROVE  FileInv'
<1> DEFINE b == files_agent
           a == files_agent'
           entry == [files_vault[b.id] EXCEPT !.stored = None]
<1>1. b \in Tools /\ ToolOK(b) /\ CopyKept(b) /\ Known(b.bytes) /\ at \in Phases
  BY DEF FileInv, FileTypes, ContentsKnown, Phases
<1>2. b.id \in DOMAIN files_vault /\ Left(b) = None /\ files_vault[b.id] \in Vaulted
  BY <1>1 DEF ToolOK, Left, FileInv, FileTypes
<1>3. entry \in Vaulted /\ entry.stored = None
  BY <1>2 DEF Vaulted, Contents
<1>4. files_vault' = [files_vault EXCEPT ![b.id] = entry]
  OBVIOUS
<1>5. /\ files_vault' \in Seq(Vaulted) /\ DOMAIN files_vault' = DOMAIN files_vault
      /\ files_vault'[b.id] = entry
      /\ \A i \in DOMAIN files_vault \ {b.id} : files_vault'[i] = files_vault[i]
  BY <1>2, <1>3, <1>4, EntryChanges
<1>6. a \in Tools /\ a.at = at /\ a.kind = b.kind /\ a.dest = b.dest /\ a.bytes = b.bytes
      /\ a.id = b.id
  BY <1>1 DEF Tools
<1>7. \A i \in DOMAIN files_vault' : Known(files_vault'[i].stored)
  BY <1>1, <1>3, <1>5, FilesAssumption DEF FileInv, ContentsKnown, Known
<1>8. Somewhere'
  <2> SUFFICES ASSUME NEW x \in files_mine PROVE Elsewhere(x, 0, None)'
    BY DEF Somewhere
  <2>1. Elsewhere(x, 0, None)
    BY DEF FileInv, Somewhere
  <2>2. x = files_vault[b.id].stored => Elsewhere(x, b.id, None)
    BY <1>1, <1>2 DEF CopyKept, Leaves, IsElsewhere
  <2>3. 0 \notin DOMAIN files_vault
    BY DEF FileInv, FileTypes
  <2>4. CASE x = files_vault[b.id].stored
    BY <1>5, <2>2, <2>3, <2>4 DEF Elsewhere
  <2>5. CASE x # files_vault[b.id].stored
    BY <1>5, <2>1, <2>5 DEF Elsewhere
  <2> QED BY <2>4, <2>5
<1>9. ToolOK(files_agent)'
  BY <1>1, <1>5, <1>6 DEF ToolOK
<1>10. CopyKept(files_agent)'
  BY <1>6 DEF CopyKept, Enters, Leaves
<1> QED BY <1>1, <1>5, <1>6, <1>7, <1>8, <1>9, <1>10, OnlyTheVault

\* The record of an entry goes, and with it the tool is done.
LEMMA RecordGoes ==
  ASSUME FileInv, files_agent.id \in DOMAIN files_vault, files_agent' = Files!Idle,
         files_vault' = [files_vault EXCEPT ![files_agent.id].record = None],
         UNCHANGED <<files_disk, files_messages, files_base, files_before, files_revert,
                     files_fresh, files_mine>>
  PROVE  FileInv'
<1> DEFINE b == files_agent
           entry == [files_vault[b.id] EXCEPT !.record = None]
<1>1. files_vault[b.id] \in Vaulted
  BY DEF FileInv, FileTypes
<1>2. entry \in Vaulted /\ entry.stored = files_vault[b.id].stored
  BY <1>1 DEF Vaulted
<1>3. files_vault' = [files_vault EXCEPT ![b.id] = entry]
  OBVIOUS
<1>4. /\ files_vault' \in Seq(Vaulted) /\ DOMAIN files_vault' = DOMAIN files_vault
      /\ files_vault'[b.id] = entry
      /\ \A i \in DOMAIN files_vault \ {b.id} : files_vault'[i] = files_vault[i]
  BY <1>2, <1>3, EntryChanges
<1>5. \A i \in DOMAIN files_vault : files_vault'[i].stored = files_vault[i].stored
  BY <1>2, <1>4
<1>6. \A i \in DOMAIN files_vault' : Known(files_vault'[i].stored)
  BY <1>4, <1>5 DEF FileInv, ContentsKnown
<1>7. Somewhere'
  BY <1>4, <1>5 DEF FileInv, Somewhere, Elsewhere
<1>8. /\ files_agent' \in Tools /\ files_agent'.bytes = None /\ files_agent'.at = "idle"
      /\ Known(files_agent'.bytes)
  BY IdleIsFine, FilesAssumption DEF FileInv, Files!Idle, Known
<1>9. ToolOK(files_agent)'
  BY <1>8, MineAreNumbers DEF ToolOK, FileInv
<1>10. CopyKept(files_agent)'
  BY <1>8 DEF CopyKept, Enters, Leaves
<1> QED BY <1>4, <1>6, <1>7, <1>8, <1>9, <1>10, OnlyTheVault

LEMMA VaultUndoneKeeps ==
  ASSUME FileInv, NEW done \in BOOLEAN, Files!UndoPayload(done) \/ Files!UndoRecord(done)
  PROVE  FileInv'
<1> DEFINE b == files_agent
           a == files_agent'
<1>1. b \in Tools /\ ToolOK(b)
  BY DEF FileInv, FileTypes
<1>2. CASE Files!UndoPayload(done) /\ done
  BY <1>2, PayloadGoes DEF Files!UndoPayload, Files!Goes, Files!review, Files!user
<1>3. CASE Files!UndoPayload(done) /\ ~done
  <2>1. Rest /\ b.at = "undoPayload" /\ a = [b EXCEPT !.at = "undoRecord"]
    BY <1>3 DEF Files!UndoPayload, Files!Goes, Files!review, Files!user, Rest
  <2>2. a.at = "undoRecord" /\ a.kind = b.kind /\ a.dest = b.dest /\ a.id = b.id
    BY <1>1, <2>1 DEF Tools
  <2>3. ToolOK(a)
    BY <1>1, <2>1, <2>2 DEF ToolOK
  <2>4. CopyKept(a)
    BY <2>2 DEF CopyKept, Enters, Leaves
  <2> QED BY <2>1, <2>3, <2>4, ToolGoes DEF Phases
<1>4. CASE Files!UndoRecord(done) /\ done
  <2>1. b.at = "undoRecord" /\ a = Files!Idle
    BY <1>4 DEF Files!UndoRecord, Files!Gone
  <2>2. b.id \in DOMAIN files_vault
    BY <1>1, <2>1 DEF ToolOK
  <2> QED BY <1>4, <2>1, <2>2, RecordGoes DEF Files!UndoRecord, Files!review, Files!user
<1>5. CASE Files!UndoRecord(done) /\ ~done
  BY <1>5, ToolEnds DEF Files!UndoRecord, Files!Gone, Files!review, Files!user, Rest
<1> QED BY <1>2, <1>3, <1>4, <1>5

LEMMA UnstoreKeeps == ASSUME FileInv, Files!Unstore PROVE FileInv'
BY PayloadGoes DEF Files!Unstore, Files!Goes, Files!review, Files!user

LEMMA UnrecordKeeps == ASSUME FileInv, Files!Unrecord PROVE FileInv'
<1>1. files_agent.at = "unrecord" /\ ToolOK(files_agent)
  BY DEF Files!Unrecord, FileInv
<1>2. files_agent.id \in DOMAIN files_vault
  BY <1>1 DEF ToolOK
<1> QED BY <1>2, RecordGoes DEF Files!Unrecord, Files!Gone, Files!review, Files!user

-----------------------------------------------------------------------------
(* The steps that write a file, or delete one.                                *)
LEMMA PutChanges ==
  ASSUME FileTypes, NEW p \in FilePaths, NEW content \in Contents, NEW expected,
         Files!Put(p, content, expected)
  PROVE  /\ files_disk' \in [FilePaths -> Contents] /\ files_disk'[p] = content
         /\ \A q \in FilePaths \ {p} : files_disk'[q] = files_disk[q]
         /\ files_mine' \subseteq files_mine
         /\ files_disk[p] \in files_mine' => files_disk[p] = expected
BY DEF Files!Put, FileTypes

\* What is put in place of what was expected loses at most that, which is kept elsewhere.
LEMMA PutKeeps ==
  ASSUME FileInv, NEW p \in FilePaths, NEW content \in Contents, NEW expected,
         Files!Put(p, content, expected), Known(content),
         expected \in files_mine' => Elsewhere(expected, 0, None)',
         UNCHANGED <<files_vault, files_messages, files_base, files_before, files_fresh>>,
         \/ UNCHANGED files_revert
         \/ files_revert.at = "writing" /\ files_revert' = [files_revert EXCEPT !.at = "recording"],
         files_agent' \in Tools, Known(files_agent'.bytes),
         ToolOK(files_agent)', CopyKept(files_agent)'
  PROVE  FileInv'
<1>1. /\ files_disk' \in [FilePaths -> Contents] /\ files_disk'[p] = content
      /\ \A q \in FilePaths \ {p} : files_disk'[q] = files_disk[q]
      /\ files_mine' \subseteq files_mine
      /\ files_disk[p] \in files_mine' => files_disk[p] = expected
  BY PutChanges DEF FileInv
<1>2. /\ files_revert' \in Reverts /\ files_revert'.path = files_revert.path
      /\ files_revert'.expected = files_revert.expected
      /\ files_revert'.original = files_revert.original
      /\ files_revert'.at # "idle" => files_revert.at # "idle"
  BY DEF FileInv, FileTypes, Reverts
<1>3. FileTypes'
  BY <1>1, <1>2 DEF FileInv, FileTypes
<1>4. ContentsKnown'
  <2>1. \A x : Known(x) => Known(x)'
    BY DEF Known
  <2> QED BY <1>1, <1>2, <2>1 DEF FileInv, ContentsKnown, Based
<1>5. RecordsOK'
  BY <1>1, <1>2 DEF FileInv, RecordsOK, Based
<1>6. Somewhere'
  <2> SUFFICES ASSUME NEW x \in files_mine' PROVE Elsewhere(x, 0, None)'
    BY DEF Somewhere
  <2>1. Elsewhere(x, 0, None)
    BY <1>1 DEF FileInv, Somewhere
  <2>2. CASE x = files_disk[p]
    BY <1>1, <2>2 DEF Elsewhere
  <2>3. CASE x # files_disk[p]
    BY <1>1, <2>1, <2>3 DEF Elsewhere
  <2> QED BY <2>2, <2>3
<1> QED BY <1>3, <1>4, <1>5, <1>6 DEF FileInv

\* Nothing is put over a file: a copy that is made loses nothing.
LEMMA PlacedKeeps == ASSUME FileInv, Files!Placed PROVE FileInv'
<1> DEFINE b == files_agent
           a == files_agent'
<1>1. /\ b \in Tools /\ ToolOK(b) /\ CopyKept(b) /\ Known(b.bytes) /\ b.at = "placing"
      /\ b.bytes \in Contents
  BY DEF Files!Placed, FileInv, FileTypes, ContentsKnown, Tools
<1>2. /\ b.kind \in {"copy", "move", "restore"} /\ b.dest \in FilePaths /\ ~b.placed
      /\ b.kind = "move" => Takes(b)
      /\ b.kind # "copy" => Holds(b)
  BY <1>1 DEF ToolOK
<1>3. /\ Files!Put(b.dest, b.bytes, None)
      /\ UNCHANGED <<files_vault, files_messages, files_base, files_before, files_revert,
                     files_fresh>>
  BY DEF Files!Placed, Files!review
<1>4. /\ files_disk'[b.dest] = b.bytes
      /\ \A q \in FilePaths \ {b.dest} : files_disk'[q] = files_disk[q]
      /\ files_mine' \subseteq files_mine
  BY <1>1, <1>2, <1>3, PutChanges DEF FileInv
<1>5. None \notin files_mine'
  BY <1>4, MineAreNumbers DEF FileInv
<1>6. CASE a = Files!Idle
  <2>1. a \in Tools /\ a.at = "idle" /\ a.bytes = None /\ Known(a.bytes)
    BY <1>6, IdleIsFine, FilesAssumption DEF FileInv, Files!Idle, Known
  <2>2. ToolOK(files_agent)'
    BY <1>5, <2>1 DEF ToolOK
  <2>3. CopyKept(files_agent)'
    BY <2>1 DEF CopyKept, Enters, Leaves
  <2> QED BY <1>1, <1>2, <1>3, <1>5, <2>1, <2>2, <2>3, PutKeeps
<1>7. CASE b.kind = "move" /\ a = [b EXCEPT !.at = "delete", !.placed = TRUE]
  <2>1. /\ a \in Tools /\ a.at = "delete" /\ a.kind = "move" /\ a.source = b.source
        /\ a.dest = b.dest /\ a.bytes = b.bytes /\ a.id = b.id /\ a.placed
    BY <1>1, <1>7 DEF Tools, Phases
  <2>2. ToolOK(files_agent)'
    BY <1>2, <1>3, <1>7, <2>1 DEF ToolOK, Takes, Holds
  <2>3. CopyKept(files_agent)'
    <3>1. IsElsewhere(files_vault[b.id].stored, b)
      BY <1>1, <1>7 DEF CopyKept, Leaves
    <3> QED BY <1>3, <1>4, <1>7, <2>1, <3>1 DEF CopyKept, Enters, IsElsewhere, Elsewhere, Left
  <2> QED BY <1>1, <1>2, <1>3, <1>5, <2>1, <2>2, <2>3, PutKeeps
<1>8. CASE b.kind = "restore" /\ a = [b EXCEPT !.at = "unstore"]
  <2>1. /\ a \in Tools /\ a.at = "unstore" /\ a.kind = "restore" /\ a.bytes = b.bytes
        /\ a.id = b.id
    BY <1>1, <1>8 DEF Tools, Phases
  <2>2. ToolOK(files_agent)'
    BY <1>2, <1>3, <1>8, <2>1 DEF ToolOK, Holds
  <2>3. files_vault'[a.id].stored = files_disk'[b.dest] /\ b.dest \in FilePaths \ {None}
    BY <1>2, <1>3, <1>4, <1>8, <2>1, FilesAssumption DEF Holds
  <2>4. CopyKept(files_agent)'
    BY <2>1, <2>3 DEF CopyKept, Enters, IsElsewhere, Elsewhere, Left
  <2> QED BY <1>1, <1>2, <1>3, <1>5, <2>1, <2>2, <2>4, PutKeeps
<1> QED BY <1>6, <1>7, <1>8 DEF Files!Placed, Files!Gone, Files!Goes

\* What is deleted is in the vault.
LEMMA DeletedKeeps == ASSUME FileInv, Files!Deleted PROVE FileInv'
<1> DEFINE b == files_agent
           a == files_agent'
<1>1. b \in Tools /\ ToolOK(b) /\ b.at = "deleting"
  BY DEF Files!Deleted, FileInv, FileTypes
<1>2. b.source \in FilePaths /\ b.id \in DOMAIN files_vault \ {0}
      /\ files_vault[b.id].stored = b.bytes /\ None \in Contents /\ Known(None)
  <2>1. b.source \in FilePaths /\ Holds(b)
    BY <1>1 DEF ToolOK, Takes
  <2>2. 0 \notin DOMAIN files_vault
    BY DEF FileInv, FileTypes
  <2>3. None \in Contents /\ Known(None)
    BY FilesAssumption DEF Contents, Known
  <2> QED BY <2>1, <2>2, <2>3 DEF Holds
<1>3. /\ Files!Put(b.source, None, b.bytes) /\ a = Files!Idle
      /\ UNCHANGED <<files_vault, files_messages, files_base, files_before, files_revert,
                     files_fresh>>
  BY DEF Files!Deleted, Files!Gone, Files!review
<1>4. files_mine' \subseteq files_mine
  BY <1>2, <1>3, PutChanges DEF FileInv
<1> PICK taken : taken = b.bytes
  OBVIOUS
<1>5. Elsewhere(taken, 0, None)'
  BY <1>2, <1>3 DEF Elsewhere
<1>6. a \in Tools /\ a.at = "idle" /\ a.bytes = None /\ Known(a.bytes)
  BY <1>3, IdleIsFine, FilesAssumption DEF FileInv, Files!Idle, Known
<1>7. ToolOK(files_agent)'
  BY <1>4, <1>6, MineAreNumbers DEF ToolOK, FileInv
<1>8. CopyKept(files_agent)'
  BY <1>6 DEF CopyKept, Enters, Leaves
<1> QED BY <1>2, <1>3, <1>5, <1>6, <1>7, <1>8, PutKeeps

\* A move that is undone deletes a copy of what is in the vault, and the payload of it only
\* goes because it is somewhere else.
LEMMA UndoingDestinationKeeps == ASSUME FileInv, Files!UndoingDestination PROVE FileInv'
<1> DEFINE b == files_agent
           a == files_agent'
<1>1. b \in Tools /\ ToolOK(b) /\ CopyKept(b) /\ b.at = "undoing"
  BY DEF Files!UndoingDestination, FileInv, FileTypes
<1>2. b.kind = "move" /\ b.dest \in FilePaths /\ b.id \in DOMAIN files_vault \ {0}
      /\ files_vault[b.id].stored = b.bytes /\ None \in Contents /\ Known(None)
  <2>1. b.kind = "move" /\ b.dest \in FilePaths /\ Holds(b)
    BY <1>1 DEF ToolOK
  <2>2. 0 \notin DOMAIN files_vault
    BY DEF FileInv, FileTypes
  <2>3. None \in Contents /\ Known(None)
    BY FilesAssumption DEF Contents, Known
  <2> QED BY <2>1, <2>2, <2>3 DEF Holds
<1>3. /\ Files!Put(b.dest, None, b.bytes) /\ Files!Undoes("undoPayload")
      /\ UNCHANGED <<files_vault, files_messages, files_base, files_before, files_revert,
                     files_fresh>>
  BY DEF Files!UndoingDestination, Files!review
<1>4. /\ \A q \in FilePaths \ {b.dest} : files_disk'[q] = files_disk[q]
      /\ files_mine' \subseteq files_mine
  BY <1>2, <1>3, PutChanges DEF FileInv
<1> PICK taken : taken = b.bytes
  OBVIOUS
<1>5. Elsewhere(taken, 0, None)'
  BY <1>2, <1>3 DEF Elsewhere
<1>6. /\ a \in Tools /\ a.at = "undoPayload" /\ a.bytes = None /\ Known(a.bytes)
      /\ a.dest = None /\ a.kind = b.kind /\ a.id = b.id
  BY <1>1, <1>3, FilesAssumption
     DEF Files!Undoes, Files!Idle, Tools, Phases, Places, Contents, Known
<1>7. ToolOK(files_agent)'
  BY <1>2, <1>3, <1>4, <1>6, MineAreNumbers DEF ToolOK, FileInv
<1>8. CopyKept(files_agent)'
  <2>1. IsElsewhere(files_vault[b.id].stored, b)
    BY <1>1, <1>2 DEF CopyKept, Leaves
  <2> QED BY <1>2, <1>3, <1>4, <1>6, <2>1, FilesAssumption
          DEF CopyKept, Enters, IsElsewhere, Elsewhere, Left
<1> QED BY <1>2, <1>3, <1>5, <1>6, <1>7, <1>8, PutKeeps

\* What a patch replaces is on its way to the records of the chat.
LEMMA PatchedKeeps == ASSUME FileInv, Files!Patched PROVE FileInv'
<1> DEFINE b == files_agent
           change == [path |-> b.source, before |-> b.hash, after |-> b.bytes]
           n == Len(files_messages)
<1>1. /\ b \in Tools /\ ToolOK(b) /\ b.at = "patching" /\ n \in Nat
      /\ Known(b.bytes) /\ b.bytes \in Contents /\ b.hash \in Contents
  BY DEF Files!Patched, FileInv, FileTypes, ContentsKnown, Tools
<1>2. b.kind = "patch" /\ b.source \in FilesPatched /\ b.source \in FilePaths
      /\ b.bytes \notin files_mine /\ Known(b.hash)
  BY <1>1, FilesAssumption DEF ToolOK
<1>3. /\ Files!Put(b.source, b.bytes, b.hash) /\ files_agent' = Files!Idle
      /\ files_messages' = Append(files_messages, change)
      /\ UNCHANGED <<files_vault, files_base, files_before, files_revert, files_fresh>>
  BY DEF Files!Patched, Files!Gone
<1>4. /\ files_disk' \in [FilePaths -> Contents] /\ files_disk'[b.source] = b.bytes
      /\ \A q \in FilePaths \ {b.source} : files_disk'[q] = files_disk[q]
      /\ files_mine' \subseteq files_mine
      /\ files_disk[b.source] \in files_mine' => files_disk[b.source] = b.hash
  BY <1>1, <1>2, <1>3, PutChanges DEF FileInv
<1>5. change \in Changes
  BY <1>1, <1>2 DEF Changes
<1>6. /\ files_messages' \in Seq(Changes) /\ DOMAIN files_messages' = 1..n+1
      /\ DOMAIN files_messages = 1..n /\ files_messages'[n+1] = change
      /\ \A i \in 1..n : files_messages'[i] = files_messages[i]
  BY <1>3, <1>5, AppendProperties DEF FileInv, FileTypes
<1>7. n + 1 \in 1..n+1 /\ 1..n+1 = 1..n \cup {n + 1}
  BY <1>1
<1>8. /\ files_agent' \in Tools /\ files_agent'.at = "idle" /\ files_agent'.bytes = None
      /\ Known(None)
  BY <1>3, IdleIsFine, FilesAssumption DEF FileInv, Files!Idle, Known
<1>9. FileTypes'
  BY <1>3, <1>4, <1>6, <1>8 DEF FileInv, FileTypes
<1>10. ContentsKnown'
  <2>1. \A x : Known(x) => Known(x)'
    BY <1>3 DEF Known
  <2>2. \A i \in DOMAIN files_messages' :
          Known(files_messages'[i].before) /\ Known(files_messages'[i].after)
    BY <1>1, <1>2, <1>6, <1>7 DEF FileInv, ContentsKnown
  <2> QED BY <1>1, <1>3, <1>4, <1>8, <2>1, <2>2 DEF FileInv, ContentsKnown, Based
<1>11. RecordsOK'
  <2>1. \A i \in DOMAIN files_messages' : files_messages'[i].after \notin files_mine'
    BY <1>2, <1>4, <1>6, <1>7 DEF FileInv, RecordsOK
  <2> QED BY <1>3, <1>4, <2>1 DEF FileInv, RecordsOK, Based
<1>12. Somewhere'
  <2> SUFFICES ASSUME NEW x \in files_mine' PROVE Elsewhere(x, 0, None)'
    BY DEF Somewhere
  <2>1. Elsewhere(x, 0, None)
    BY <1>4 DEF FileInv, Somewhere
  <2>2. CASE x = files_disk[b.source]
    BY <1>4, <1>6, <1>7, <2>2 DEF Elsewhere
  <2>3. CASE x # files_disk[b.source]
    BY <1>3, <1>4, <1>6, <1>7, <2>1, <2>3 DEF Elsewhere
  <2> QED BY <2>2, <2>3
<1>13. ToolOK(files_agent)'
  BY <1>4, <1>8, MineAreNumbers DEF ToolOK, FileInv
<1>14. CopyKept(files_agent)'
  BY <1>8 DEF CopyKept, Enters, Leaves
<1> QED BY <1>9, <1>10, <1>11, <1>12, <1>13, <1>14 DEF FileInv

-----------------------------------------------------------------------------
(* The steps that leave the tool and the vault alone.                         *)

\* Nothing that the user still has goes from where it is elsewhere.
ElsewhereStays ==
  \A x \in files_mine \cap files_mine' :
    \A i, d : Elsewhere(x, i, d) => Elsewhere(x, i, d)'

LEMMA ToolRests ==
  ASSUME FileInv, UNCHANGED <<files_agent, files_vault>>, ElsewhereStays,
         files_fresh' \in Nat, files_fresh <= files_fresh',
         \A x \in files_mine' \ files_mine : x \in Nat /\ x > files_fresh
  PROVE  /\ ToolOK(files_agent)' /\ CopyKept(files_agent)'
         /\ \A x : Known(x) /\ x \in files_mine' => x \in files_mine
         /\ \A x : Known(x) => Known(x)'
<1>1. \A x : Known(x) /\ x \in files_mine' => x \in files_mine
  BY DEF Known, FileInv, FileTypes
<1>2. \A x : Known(x) => Known(x)'
  BY DEF Known, FileInv, FileTypes
<1>3. ToolOK(files_agent)'
  BY <1>1, <1>2 DEF FileInv, ContentsKnown, ToolOK, Aimed, Takes, Holds
<1>4. \A x, i, d : /\ Known(x)
                   /\ x \in files_mine => Elsewhere(x, i, d)
                   => (x \in files_mine => Elsewhere(x, i, d))'
  BY <1>1 DEF ElsewhereStays
<1>5. PICK b, v : b = files_agent /\ v = files_vault[b.id].stored
  OBVIOUS
<1>6. Known(b.bytes) /\ CopyKept(b)
  BY <1>5 DEF FileInv, ContentsKnown
<1>7. Enters(b) => (b.bytes \in files_mine => Elsewhere(b.bytes, b.id, Left(b)))'
  BY <1>4, <1>6 DEF CopyKept, IsElsewhere
<1>8. Leaves(b) => b.id \in DOMAIN files_vault
  BY <1>5 DEF FileInv, ToolOK, Takes, Holds, Leaves
<1>9. Leaves(b) => (v \in files_mine => Elsewhere(v, b.id, Left(b)))'
  BY <1>4, <1>5, <1>6, <1>8 DEF CopyKept, IsElsewhere, FileInv, ContentsKnown
<1>10. CopyKept(b)'
  BY <1>5, <1>7, <1>9 DEF CopyKept, IsElsewhere, Enters, Leaves, Left
<1> QED BY <1>1, <1>2, <1>3, <1>5, <1>10

LEMMA ToolStays ==
  ASSUME FileInv,
         UNCHANGED <<files_disk, files_vault, files_agent, files_messages, files_before,
                     files_fresh, files_mine>>
  PROVE  ToolOK(files_agent)' /\ CopyKept(files_agent)'
<1>1. files_fresh \in Nat /\ files_fresh <= files_fresh /\ ElsewhereStays
  BY DEF FileInv, FileTypes, ElsewhereStays, Elsewhere
<1> QED BY <1>1, ToolRests

LEMMA RevertWritesKeeps == ASSUME FileInv, Files!RevertWrites PROVE FileInv'
<1> DEFINE r == files_revert
<1>1. /\ r \in Reverts /\ r.at = "writing" /\ r.path \in FilePaths /\ r.original \in Contents
      /\ Known(r.original) /\ files_fresh \in Nat
  BY FilesAssumption DEF Files!RevertWrites, FileInv, FileTypes, ContentsKnown, Reverts
<1>2. /\ Files!Put(r.path, r.original, r.expected) /\ r' = [r EXCEPT !.at = "recording"]
      /\ UNCHANGED <<files_vault, files_agent, files_messages, files_base, files_before,
                     files_fresh>>
  BY DEF Files!RevertWrites
<1>3. PICK p, old : p = r.path /\ old = r.expected
  OBVIOUS
<1>4. /\ \A q \in FilePaths \ {p} : files_disk'[q] = files_disk[q]
      /\ files_mine' \subseteq files_mine
      /\ files_disk[p] \in files_mine' => files_disk[p] = old
  BY <1>1, <1>2, <1>3, PutChanges DEF FileInv
<1>5. old \in files_mine => old \in files_before
  BY <1>1, <1>3 DEF FileInv, RecordsOK
<1>6. ElsewhereStays
  <2> SUFFICES ASSUME NEW x \in files_mine \cap files_mine', NEW i, NEW d, Elsewhere(x, i, d)
               PROVE  Elsewhere(x, i, d)'
    BY DEF ElsewhereStays
  <2>1. CASE x = files_disk[p]
    BY <1>2, <1>4, <1>5, <2>1 DEF Elsewhere
  <2>2. CASE x # files_disk[p]
    BY <1>2, <1>4, <2>2 DEF Elsewhere
  <2> QED BY <2>1, <2>2
<1>7. ToolOK(files_agent)' /\ CopyKept(files_agent)'
  BY <1>1, <1>2, <1>4, <1>6, ToolRests
<1>8. old \in files_mine' => Elsewhere(old, 0, None)'
  BY <1>2, <1>4, <1>5 DEF Elsewhere
<1>9. files_agent' \in Tools /\ Known(files_agent'.bytes)
  BY <1>2 DEF FileInv, FileTypes, ContentsKnown
<1> QED BY <1>1, <1>2, <1>3, <1>7, <1>8, <1>9, PutKeeps

LEMMA UserKeeps ==
  ASSUME FileInv, NEW p \in FilePaths, Files!UserWrites(p) \/ Files!UserDeletes(p)
  PROVE  FileInv'
<1> DEFINE new == files_fresh + 1
<1>1. /\ UNCHANGED <<files_vault, files_agent, files_messages, files_base, files_before,
                     files_revert>>
      /\ files_fresh \in Nat /\ new \in Nat /\ new > files_fresh /\ files_fresh <= new
      /\ None \notin Nat
  BY FilesAssumption DEF Files!UserWrites, Files!UserDeletes, Files!review, FileInv, FileTypes
<1>2. \/ /\ files_disk' = [files_disk EXCEPT ![p] = new] /\ files_fresh' = new
         /\ files_mine' = (files_mine \ {files_disk[p]}) \cup {new}
      \/ /\ files_disk' = [files_disk EXCEPT ![p] = None] /\ files_fresh' = files_fresh
         /\ files_mine' = files_mine \ {files_disk[p]}
  BY DEF Files!UserWrites, Files!UserDeletes
<1> HIDE DEF new
<1>3. /\ files_disk' \in [FilePaths -> Contents] /\ Known(files_disk[p])'
      /\ \A q \in FilePaths \ {p} : files_disk'[q] = files_disk[q]
      /\ files_fresh' \in Nat /\ files_fresh <= files_fresh'
  BY <1>1, <1>2 DEF FileInv, FileTypes, Contents, Known
<1>4. files_mine' \subseteq (files_mine \ {files_disk[p]}) \cup {new}
      /\ (new \in files_mine' => files_disk'[p] = new)
  <2>1. new \notin files_mine
    BY <1>1 DEF FileInv, FileTypes
  <2> QED BY <1>2, <2>1 DEF FileInv, FileTypes
<1>5. files_mine' \subseteq 1..files_fresh'
  <2>1. files_mine \subseteq 1..files_fresh
    BY DEF FileInv, FileTypes
  <2>2. 1..files_fresh \subseteq 1..new /\ new \in 1..new
    BY <1>1
  <2> QED BY <1>2, <2>1, <2>2
<1>6. ElsewhereStays
  <2> SUFFICES ASSUME NEW x \in files_mine \cap files_mine', NEW i, NEW d, Elsewhere(x, i, d)
               PROVE  Elsewhere(x, i, d)'
    BY DEF ElsewhereStays
  <2>1. x # new
    BY <1>1 DEF FileInv, FileTypes
  <2>2. x # files_disk[p]
    BY <1>4, <2>1
  <2> QED BY <1>1, <1>3, <2>2 DEF Elsewhere
<1>7. /\ ToolOK(files_agent)' /\ CopyKept(files_agent)'
      /\ \A x : Known(x) /\ x \in files_mine' => x \in files_mine
      /\ \A x : Known(x) => Known(x)'
  BY <1>1, <1>3, <1>4, <1>6, ToolRests
<1>8. FileTypes'
  BY <1>1, <1>3, <1>5 DEF FileInv, FileTypes
<1>9. ContentsKnown'
  BY <1>1, <1>3, <1>7 DEF FileInv, ContentsKnown, Based
<1>10. RecordsOK'
  BY <1>1, <1>7 DEF FileInv, ContentsKnown, RecordsOK, Based
<1>11. Somewhere'
  <2> SUFFICES ASSUME NEW x \in files_mine' PROVE Elsewhere(x, 0, None)'
    BY DEF Somewhere
  <2>1. CASE x = new
    BY <1>4, <2>1, FilesAssumption DEF Elsewhere
  <2>2. CASE x # new
    BY <1>4, <1>6, <2>2 DEF FileInv, Somewhere, ElsewhereStays
  <2> QED BY <2>1, <2>2
<1> QED BY <1>7, <1>8, <1>9, <1>10, <1>11 DEF FileInv

\* What was changed goes from its message to the records; the records keep what was there.
LEMMA RecordMutationKeeps == ASSUME FileInv, Files!RecordMutation PROVE FileInv'
<1> DEFINE m == Head(files_messages)
           entry == files_base[m.path]
           recorded == IF entry = None THEN [original |-> m.before, latest |-> m.after]
                       ELSE [entry EXCEPT !.latest = m.after]
<1>1. /\ files_messages # <<>> /\ files_messages' = Tail(files_messages)
      /\ files_base' = [files_base EXCEPT ![m.path] = recorded]
      /\ files_before' = files_before \cup ({m.before} \cap files_mine)
      /\ UNCHANGED <<files_disk, files_vault, files_agent, files_revert, files_fresh, files_mine>>
  BY DEF Files!RecordMutation, Files!user
<1>2. /\ m \in Changes /\ m = files_messages[1] /\ 1 \in DOMAIN files_messages
      /\ files_messages' \in Seq(Changes)
      /\ \A i \in DOMAIN files_messages' :
           i + 1 \in DOMAIN files_messages /\ files_messages'[i] = files_messages[i + 1]
      /\ \A i \in DOMAIN files_messages : i # 1 =>
           i - 1 \in DOMAIN files_messages' /\ files_messages'[i - 1] = files_messages[i]
  BY <1>1, HeadTailProperties DEF FileInv, FileTypes
<1> HIDE DEF m
<1>3. /\ m.path \in FilesPatched /\ m.before \in Contents /\ m.after \in Contents
      /\ entry \in Baselines \cup {None} /\ m.after \notin files_mine
      /\ Known(m.before) /\ Known(m.after)
      /\ entry # None => Known(entry.original) /\ Known(entry.latest)
      /\ entry # None => {entry.original, entry.latest} \cap files_mine \subseteq files_before
  BY <1>2 DEF Changes, FileInv, FileTypes, RecordsOK, ContentsKnown, Based
<1>4. /\ recorded \in Baselines /\ recorded.latest = m.after
      /\ recorded.original = IF entry = None THEN m.before ELSE entry.original
  BY <1>3 DEF Baselines
<1>5. /\ files_base' \in [FilesPatched -> Baselines \cup {None}] /\ files_base'[m.path] = recorded
      /\ \A p \in FilesPatched \ {m.path} : files_base'[p] = files_base[p]
  BY <1>1, <1>3, <1>4 DEF FileInv, FileTypes
<1> HIDE DEF entry, recorded
<1>6. FileTypes'
  BY <1>1, <1>2, <1>3, <1>4, <1>5 DEF FileInv, FileTypes
<1>7. ContentsKnown'
  <2>1. \A x : Known(x) => Known(x)'
    BY <1>1 DEF Known
  <2>2. \A p \in FilesPatched : Based(p)' =>
          Known(files_base'[p].original) /\ Known(files_base'[p].latest)
    BY <1>1, <1>3, <1>4, <1>5 DEF FileInv, ContentsKnown, Based
  <2> QED BY <1>1, <1>2, <2>1, <2>2 DEF FileInv, ContentsKnown
<1>8. RecordsOK'
  <2>1. \A p \in FilesPatched : Based(p)' =>
          {files_base'[p].original, files_base'[p].latest} \cap files_mine \subseteq files_before'
    BY <1>1, <1>3, <1>4, <1>5 DEF FileInv, RecordsOK, Based
  <2> QED BY <1>1, <1>2, <2>1 DEF FileInv, RecordsOK
<1>9. ElsewhereStays
  <2> SUFFICES ASSUME NEW x \in files_mine, NEW i, NEW d, Elsewhere(x, i, d)
               PROVE  Elsewhere(x, i, d)'
    BY DEF ElsewhereStays
  <2>1. ASSUME NEW j \in DOMAIN files_messages, files_messages[j].before = x
        PROVE  Elsewhere(x, i, d)'
    <3>1. CASE j = 1
      BY <1>1, <1>2, <2>1, <3>1 DEF Elsewhere
    <3>2. CASE j # 1
      BY <1>2, <2>1, <3>2 DEF Elsewhere
    <3> QED BY <3>1, <3>2
  <2> QED BY <1>1, <2>1 DEF Elsewhere
<1>10. ToolOK(files_agent)' /\ CopyKept(files_agent)'
  <2>1. files_fresh \in Nat /\ files_fresh <= files_fresh
    BY DEF FileInv, FileTypes
  <2> QED BY <1>1, <1>9, <2>1, ToolRests
<1>11. Somewhere'
  BY <1>1, <1>9 DEF FileInv, Somewhere, ElsewhereStays
<1> QED BY <1>6, <1>7, <1>8, <1>10, <1>11 DEF FileInv

LEMMA RevertKeeps == ASSUME FileInv, NEW p \in FilesPatched, Files!Revert(p) PROVE FileInv'
<1> DEFINE r == files_revert'
           entry == files_base[p]
<1>1. /\ entry # None /\ files_disk[p] = entry.latest
      /\ r = [at |-> "writing", path |-> p, expected |-> files_disk[p], original |-> entry.original]
      /\ UNCHANGED <<files_disk, files_vault, files_agent, files_messages, files_base,
                     files_before, files_fresh, files_mine>>
  BY DEF Files!Revert, Files!user
<1>2. /\ entry \in Baselines /\ entry.original \in Contents /\ entry.latest \in Contents
      /\ Known(entry.original) /\ Known(entry.latest)
      /\ {entry.original, entry.latest} \cap files_mine \subseteq files_before
  BY <1>1 DEF Baselines, Based, FileInv, FileTypes, ContentsKnown, RecordsOK
<1>3. /\ r \in Reverts /\ r.path = p /\ r.expected = entry.latest /\ r.original = entry.original
  BY <1>1, <1>2 DEF Reverts
<1>4. FileTypes'
  BY <1>1, <1>2, <1>3 DEF FileInv, FileTypes
<1>5. ContentsKnown'
  <2>1. \A x : Known(x) => Known(x)'
    BY <1>1 DEF Known
  <2> QED BY <1>1, <1>2, <1>3, <2>1 DEF FileInv, ContentsKnown, Based
<1>6. RecordsOK'
  BY <1>1, <1>2, <1>3 DEF FileInv, RecordsOK, Based
<1>7. Somewhere'
  BY <1>1 DEF FileInv, Somewhere, Elsewhere
<1>8. ToolOK(files_agent)' /\ CopyKept(files_agent)'
  BY <1>1, ToolStays
<1> QED BY <1>4, <1>5, <1>6, <1>7, <1>8 DEF FileInv

LEMMA RevertRecordsKeeps == ASSUME FileInv, Files!RevertRecords PROVE FileInv'
<1> DEFINE r == files_revert
           entry == files_base[r.path]
           recorded == [entry EXCEPT !.latest = r.original]
<1>1. /\ r.at = "recording" /\ r' = Files!NoRevert
      /\ files_base' = [files_base EXCEPT ![r.path] = recorded]
      /\ UNCHANGED <<files_disk, files_vault, files_agent, files_messages, files_before,
                     files_fresh, files_mine>>
  BY DEF Files!RevertRecords, Files!user
<1>2. /\ r.path \in FilesPatched /\ entry \in Baselines /\ r.original \in Contents
      /\ Known(r.original) /\ Known(entry.original)
      /\ {r.original, entry.original} \cap files_mine \subseteq files_before
  BY <1>1 DEF FileInv, FileTypes, Reverts, ContentsKnown, RecordsOK, Based
<1>3. recorded \in Baselines /\ recorded.latest = r.original /\ recorded.original = entry.original
  BY <1>2 DEF Baselines
<1> PICK path, new : path = r.path /\ new = recorded
  OBVIOUS
<1>4. /\ files_base' \in [FilesPatched -> Baselines \cup {None}] /\ files_base'[path] = new
      /\ \A p \in FilesPatched \ {path} : files_base'[p] = files_base[p]
  BY <1>1, <1>2, <1>3 DEF FileInv, FileTypes
<1>5. r' \in Reverts /\ r'.at = "idle" /\ r'.expected = None /\ r'.original = None
  BY <1>1 DEF Files!NoRevert, Reverts, Contents
<1>6. FileTypes'
  BY <1>1, <1>4, <1>5 DEF FileInv, FileTypes
<1>7. \A p \in FilesPatched \ {path} : Based(p)' => Based(p)
  BY <1>4, <1>5 DEF Based
<1>8. ContentsKnown'
  <2>1. Known(None) /\ \A x : Known(x) => Known(x)'
    BY <1>1, FilesAssumption DEF Known
  <2>2. \A p \in FilesPatched : Based(p)' =>
          Known(files_base'[p].original) /\ Known(files_base'[p].latest)
    BY <1>2, <1>3, <1>4, <1>7 DEF FileInv, ContentsKnown
  <2> QED BY <1>1, <1>5, <2>1, <2>2 DEF FileInv, ContentsKnown
<1>9. RecordsOK'
  <2>1. \A p \in FilesPatched : Based(p)' =>
          {files_base'[p].original, files_base'[p].latest} \cap files_mine \subseteq files_before
    BY <1>2, <1>3, <1>4, <1>7 DEF FileInv, RecordsOK
  <2> QED BY <1>1, <1>5, <2>1 DEF FileInv, RecordsOK
<1>10. Somewhere'
  BY <1>1 DEF FileInv, Somewhere, Elsewhere
<1>11. ToolOK(files_agent)' /\ CopyKept(files_agent)'
  BY <1>1, ToolStays
<1> QED BY <1>6, <1>8, <1>9, <1>10, <1>11 DEF FileInv

-----------------------------------------------------------------------------
\* What a crash keeps from being recorded is what the history gives up.
LEMMA CrashKeeps == ASSUME FileInv, Files!Crash PROVE FileInv'
<1>1. /\ files_agent' = Files!Idle /\ files_revert' = Files!NoRevert /\ files_messages' = <<>>
      /\ files_mine' = files_mine \ {files_messages[i].before : i \in DOMAIN files_messages}
      /\ UNCHANGED <<files_disk, files_vault, files_base, files_before, files_fresh>>
  BY DEF Files!Crash
<1>2. /\ files_agent' \in Tools /\ files_agent'.at = "idle" /\ files_agent'.bytes = None
      /\ Known(None)
  BY <1>1, IdleIsFine, FilesAssumption DEF FileInv, Files!Idle, Known
<1>3. /\ files_revert' \in Reverts /\ files_revert'.at = "idle" /\ files_revert'.expected = None
      /\ files_revert'.original = None
  BY <1>1 DEF Files!NoRevert, Reverts, Contents
<1>4. files_messages' \in Seq(Changes) /\ DOMAIN files_messages' = {}
  BY <1>1
<1>5. \A p \in FilesPatched : Based(p)' => Based(p)
  BY <1>1, <1>3 DEF Based
<1>6. FileTypes'
  BY <1>1, <1>2, <1>3, <1>4 DEF FileInv, FileTypes
<1>7. ContentsKnown'
  <2>1. \A x : Known(x) => Known(x)'
    BY <1>1 DEF Known
  <2> QED BY <1>1, <1>2, <1>3, <1>4, <1>5, <2>1 DEF FileInv, ContentsKnown
<1>8. RecordsOK'
  BY <1>1, <1>3, <1>4, <1>5 DEF FileInv, RecordsOK
<1>9. Somewhere'
  <2> SUFFICES ASSUME NEW x \in files_mine' PROVE Elsewhere(x, 0, None)'
    BY DEF Somewhere
  <2>1. Elsewhere(x, 0, None) /\ \A j \in DOMAIN files_messages : files_messages[j].before # x
    BY <1>1 DEF FileInv, Somewhere
  <2> QED BY <1>1, <2>1 DEF Elsewhere
<1>10. ToolOK(files_agent)' /\ CopyKept(files_agent)'
  BY <1>1, <1>2, MineAreNumbers DEF FileInv, ToolOK, CopyKept, Enters, Leaves
<1> QED BY <1>6, <1>7, <1>8, <1>9, <1>10 DEF FileInv

-----------------------------------------------------------------------------
LEMMA InitFiles == Files!Init => FileInv
<1> SUFFICES ASSUME Files!Init PROVE FileInv
  OBVIOUS
<1>1. /\ files_disk = [p \in FilePaths |-> None] /\ files_vault = <<>>
      /\ files_agent = Files!Idle /\ files_messages = <<>>
      /\ files_base = [p \in FilesPatched |-> None] /\ files_before = {}
      /\ files_revert = Files!NoRevert /\ files_fresh = 0 /\ files_mine = {}
  BY DEF Files!Init
<1>2. files_agent \in Tools /\ files_agent.at = "idle" /\ files_agent.bytes = None
  BY <1>1 DEF Files!Idle, Tools, Phases, Contents, Places
<1>3. /\ files_revert \in Reverts /\ files_revert.at = "idle" /\ files_revert.expected = None
      /\ files_revert.original = None
  BY <1>1 DEF Files!NoRevert, Reverts, Contents
<1>4. FileTypes
  BY <1>1, <1>2, <1>3 DEF FileTypes, Contents
<1>5. \A p \in FilesPatched : ~Based(p)
  BY <1>1, <1>3 DEF Based
<1>6. ContentsKnown /\ RecordsOK
  BY <1>1, <1>2, <1>3, <1>5, FilesAssumption DEF ContentsKnown, RecordsOK, Known
<1>7. Somewhere /\ ToolOK(files_agent) /\ CopyKept(files_agent)
  BY <1>1, <1>2 DEF Somewhere, ToolOK, CopyKept, Enters, Leaves
<1> QED BY <1>4, <1>6, <1>7 DEF FileInv

LEMMA StepFiles == FileInv /\ [MCNext]_MCVars => FileInv'
<1> SUFFICES ASSUME FileInv, [MCNext]_MCVars PROVE FileInv'
  OBVIOUS
<1>1. CASE UNCHANGED files_vars
  <2>1. UNCHANGED <<files_disk, files_vault, files_agent, files_messages, files_base,
                    files_before, files_revert, files_fresh, files_mine>>
    BY <1>1 DEF files_vars
  <2>2. /\ files_agent \in Tools /\ files_fresh \in Nat /\ files_fresh <= files_fresh
        /\ files_agent.bytes \in Nat => files_agent.bytes <= files_fresh
        /\ ToolOK(files_agent) /\ CopyKept(files_agent)
    BY DEF FileInv, FileTypes, ContentsKnown, Known
  <2>3. files_agent' = files_agent /\ files_fresh' = files_fresh
    BY <2>1
  <2> QED BY <2>1, <2>2, <2>3, OnlyTheTool
<1>2. CASE Files!Next
  <2>1. FilesPatched \subseteq FilePaths
    BY FilesAssumption
  <2>2. CASE \/ Files!Verify \/ Files!Snapshot \/ Files!Read \/ Files!Place \/ Files!Delete
             \/ Files!Fails \/ Files!UndoDestination \/ Files!VerifyRestore \/ Files!Patch
    BY <2>2, VerifyKeeps, SnapshotKeeps, ReadKeeps, PlaceKeeps, DeleteKeeps, FailsKeeps,
       UndoDestinationKeeps, VerifyRestoreKeeps, PatchKeeps
  <2>3. CASE \/ Files!Record \/ Files!Store \/ Files!Unstore \/ Files!Unrecord
             \/ \E done \in BOOLEAN : Files!UndoPayload(done) \/ Files!UndoRecord(done)
    BY <2>3, RecordKeeps, StoreKeeps, UnstoreKeeps, UnrecordKeeps, VaultUndoneKeeps
  <2>4. CASE \/ Files!Placed \/ Files!Deleted \/ Files!UndoingDestination \/ Files!Patched
             \/ Files!RecordMutation \/ Files!RevertWrites \/ Files!RevertRecords \/ Files!Crash
    BY <2>4, PlacedKeeps, DeletedKeeps, UndoingDestinationKeeps, PatchedKeeps,
       RecordMutationKeeps, RevertWritesKeeps, RevertRecordsKeeps, CrashKeeps
  <2>5. CASE \E id \in DOMAIN files_vault : Files!ReviewRestore(id)
    BY <2>5, ReviewRestoreKeeps
  <2>6. CASE \E p \in FilesPatched :
               Files!Revert(p) \/ \E delete \in BOOLEAN : Files!AskPatch(p, delete)
    BY <2>6, RevertKeeps, AskPatchKeeps
  <2>7. CASE \E p \in FilePaths :
               \/ Files!UserWrites(p) \/ Files!UserDeletes(p)
               \/ \E kind \in {"copy", "move", "delete"}, d \in FilePaths \cup {None} :
                    Files!Review(kind, p, d)
    BY <2>7, UserKeeps, ReviewKeeps
  <2> QED BY <1>2, <2>2, <2>3, <2>4, <2>5, <2>6, <2>7 DEF Files!Next
<1> QED BY <1>1, <1>2 DEF MCNext, MCVars, files_vars

\* For any files, patched files and bounds: what the user has left in a file is in a file, in
\* the vault, or in the records of the chat, however tools, failures, reverts, crashes and the
\* user's own edits cross.
THEOREM NothingOfTheUsersIsLost == MCSpec => []NothingIsLost
<1>1. FileInv => NothingIsLost
  BY DEF FileInv, Somewhere, Elsewhere, NothingIsLost, Files!NothingIsLost
<1>2. MCInit => FileInv
  BY InitFiles DEF MCInit
<1> QED BY <1>1, <1>2, StepFiles, PTL DEF MCSpec

-----------------------------------------------------------------------------
(* The journals of the chats. *)

\* Induction over the naturals, stated of a set: what holds of 0 and goes from each to the next.
LEMMA NatSet ==
  ASSUME NEW S, 0 \in S, \A n \in Nat : n \in S => n + 1 \in S
  PROVE  Nat \subseteq S
<1> SUFFICES ASSUME Nat \ S # {} PROVE FALSE
  OBVIOUS
<1> DEFINE R == OpToRel(<, Nat)
<1>1. IsWellFoundedOn(R, Nat)
  BY NatLessThanWellFounded
<1>2. \A x, y \in Nat : <<y, x>> \in R <=> y < x
  BY DEF OpToRel
<1> HIDE DEF R
<1>3. PICK x \in Nat \ S : \A y \in Nat \ S : ~ (<<y, x>> \in R)
  <2> DEFINE T == Nat \ S
  <2>1. T \subseteq Nat /\ T # {}
    OBVIOUS
  <2> HIDE DEF T
  <2>2. \E x \in T : \A y \in T : ~ (<<y, x>> \in R)
    BY <1>1, <2>1, WFMin
  <2> QED BY <2>2 DEF T
<1>4. x # 0 /\ x - 1 \in Nat /\ x - 1 < x
  BY <1>3
<1>5. x - 1 \in S
  BY <1>2, <1>3, <1>4
<1> QED BY <1>3, <1>4, <1>5

\* The projections of ever more events of a row, each made from the one before.
Backfill(row, f, k) ==
  f = [n \in 0 .. k |-> IF n = 0 THEN row ELSE Journal!Project(f[n - 1], n)]

\* For every number of events there is such a row of projections.
LEMMA BackfillExists ==
  ASSUME NEW row, NEW k \in Nat
  PROVE  \E f : Backfill(row, f, k)
<1> DEFINE S == {n \in Nat : \E f : Backfill(row, f, n)}
<1>1. 0 \in S
  <2> DEFINE f == [n \in 0 .. 0 |-> row]
  <2>1. Backfill(row, f, 0)
    BY DEF Backfill
  <2> QED BY <2>1
<1>2. ASSUME NEW n \in Nat, n \in S PROVE n + 1 \in S
  <2>1. PICK f : Backfill(row, f, n)
    BY <1>2
  <2> DEFINE last == Journal!Project(f[n], n + 1)
             g == [m \in 0 .. n + 1 |-> IF m = n + 1 THEN last ELSE f[m]]
  <2>2. \A m \in 0 .. n : f[m] = IF m = 0 THEN row ELSE Journal!Project(f[m - 1], m)
    BY <2>1 DEF Backfill
  <2>3. ASSUME NEW m \in 0 .. n + 1
        PROVE  g[m] = IF m = 0 THEN row ELSE Journal!Project(g[m - 1], m)
    <3>1. CASE m = n + 1
      <4>1. m - 1 = n /\ n \in 0 .. n + 1 /\ n # n + 1 /\ m # 0
        BY <3>1
      <4>2. g[m] = last /\ g[n] = f[n]
        BY <3>1, <4>1
      <4> QED BY <3>1, <4>1, <4>2
    <3>2. CASE m # n + 1 /\ m # 0
      <4>1. m \in 0 .. n /\ m - 1 \in 0 .. n + 1 /\ m - 1 # n + 1
        BY <3>2
      <4>2. g[m] = f[m] /\ g[m - 1] = f[m - 1]
        BY <3>2, <4>1
      <4> QED BY <3>2, <4>1, <4>2, <2>2
    <3>3. CASE m # n + 1 /\ m = 0
      <4>1. g[m] = f[0] /\ 0 \in 0 .. n
        BY <3>3
      <4> QED BY <3>3, <4>1, <2>2
    <3> QED BY <3>1, <3>2, <3>3
  <2>4. g = [m \in 0 .. n + 1 |-> g[m]]
    OBVIOUS
  <2> HIDE DEF g
  <2>5. Backfill(row, g, n + 1)
    BY <2>3, <2>4 DEF Backfill
  <2> QED BY <2>5
<1> HIDE DEF S
<1>3. Nat \subseteq S
  BY <1>1, <1>2, NatSet
<1> QED BY <1>3 DEF S

\* What the backfill comes to is the last of them.
LEMMA BackfillIs ==
  ASSUME NEW row, Len(row.events) \in Nat
  PROVE  \E f : Backfill(row, f, Len(row.events)) /\ Journal!Backfilled(row) = f[Len(row.events)]
<1> DEFINE k == Len(row.events)
           up == CHOOSE f : Backfill(row, f, k)
<1>1. \E f : Backfill(row, f, k)
  BY BackfillExists
<1>2. Backfill(row, up, k)
  BY <1>1
<1>3. Journal!Backfilled(row) = up[k]
  BY DEF Journal!Backfilled, Backfill
<1> QED BY <1>2, <1>3

\* What is appended changes nothing of what was there.
LEMMA AppendKeepsStart ==
  ASSUME NEW S, NEW s \in Seq(S), NEW x \in S, NEW k \in 0 .. Len(s)
  PROVE  SubSeq(Append(s, x), 1, k) = SubSeq(s, 1, k)
<1>1. Len(s) \in Nat /\ \A i \in 1 .. Len(s) : s[i] \in S /\ Append(s, x)[i] = s[i]
  BY AppendProperties, LenProperties, ElementOfSeq
<1>2. \A i \in 1 .. k : s[i] \in S /\ Append(s, x)[i] \in S /\ Append(s, x)[i] = s[i]
  BY <1>1
<1>3. /\ SubSeq(s, 1, k) \in Seq(S) /\ Len(SubSeq(s, 1, k)) = k
      /\ \A i \in 1 .. k : SubSeq(s, 1, k)[i] = s[i]
  BY <1>1, <1>2, SubSeqProperties
<1>4. /\ SubSeq(Append(s, x), 1, k) \in Seq(S) /\ Len(SubSeq(Append(s, x), 1, k)) = k
      /\ \A i \in 1 .. k : SubSeq(Append(s, x), 1, k)[i] = Append(s, x)[i]
  BY <1>1, <1>2, SubSeqProperties
<1> QED BY <1>2, <1>3, <1>4, SeqEqual

LEMMA AppendExtends ==
  ASSUME NEW S, NEW s \in Seq(S), NEW x \in S
  PROVE  Journal!IsPrefix(s, Append(s, x))
<1>1. Len(s) \in Nat /\ Len(Append(s, x)) = Len(s) + 1
  BY AppendProperties, LenProperties
<1>2. SubSeq(Append(s, x), 1, Len(s)) = SubSeq(s, 1, Len(s))
  BY <1>1, AppendKeepsStart
<1> QED BY <1>1, <1>2 DEF Journal!IsPrefix

LEMMA PrefixItself == ASSUME NEW S, NEW s \in Seq(S) PROVE Journal!IsPrefix(s, s)
BY LenProperties DEF Journal!IsPrefix

LEMMA EmptyPrefix == ASSUME NEW S, NEW s \in Seq(S) PROVE Journal!IsPrefix(<<>>, s)
BY LenProperties, EmptySeq, SubSeqEmpty DEF Journal!IsPrefix

\* What comes of a row when its context grows and all else stays.
Extends(row, new) ==
  /\ new \in Journal!ChatRows
  /\ new.policy = row.policy /\ new.parent = row.parent /\ new.from = row.from
  /\ new.events = row.events
  /\ Journal!IsPrefix(row.entries, new.entries)
  /\ row.checkpoints \subseteq new.checkpoints

\* What the parts of a row are.
LEMMA RowIs ==
  ASSUME NEW row \in Journal!ChatRows
  PROVE  /\ row.policy \in Journal!Policies
         /\ row.parent \in JournalChats \cup {None}
         /\ row.from \in Journal!Origins \cup {None}
         /\ row.events \in Seq(Journal!Events) /\ Len(row.events) \in Nat
         /\ \A n \in 1 .. Len(row.events) : row.events[n] \in Journal!Events
         /\ row.entries \in Seq(Journal!Entries) /\ Len(row.entries) \in Nat
         /\ DOMAIN row.entries = 1 .. Len(row.entries)
         /\ DOMAIN row.events = 1 .. Len(row.events)
         /\ \A i \in 1 .. Len(row.entries) : row.entries[i] \in Journal!Entries
         /\ row.checkpoints \subseteq Journal!Checkpoints
<1>1. /\ row.policy \in Journal!Policies
      /\ row.parent \in JournalChats \cup {None}
      /\ row.from \in Journal!Origins \cup {None}
      /\ row.events \in Seq(Journal!Events)
      /\ row.entries \in Seq(Journal!Entries)
      /\ row.checkpoints \subseteq Journal!Checkpoints
  BY DEF Journal!ChatRows
<1> QED BY <1>1, LenProperties, ElementOfSeq

LEMMA Untouched == ASSUME NEW row \in Journal!ChatRows PROVE Extends(row, row)
BY RowIs, PrefixItself DEF Extends

\* Projecting the next event of a row whose context is that of the events before it.
LEMMA ProjectNext ==
  ASSUME NEW row \in Journal!ChatRows, NEW n \in 1 .. Len(row.events),
         Journal!Projected(row, n - 1)
  PROVE  /\ Extends(row, Journal!Project(row, n))
         /\ Journal!Projected(Journal!Project(row, n), n)
<1> DEFINE e == row.events[n]
           len == Len(row.entries)
           cp == [src |-> n, upto |-> len, digest |-> row.entries]
           entry == [src |-> n, type |-> e.type, text |-> e.text]
           new == Journal!Project(row, n)
<1>1. /\ len \in Nat /\ n \in Nat /\ n \notin 1 .. n - 1 /\ 1 .. n = (1 .. n - 1) \cup {n}
      /\ DOMAIN row.entries = 1 .. len /\ row.entries \in Seq(Journal!Entries)
      /\ row.checkpoints \subseteq Journal!Checkpoints
      /\ e \in Journal!Events
  BY RowIs
<1>2. /\ \A i \in 1 .. len : row.entries[i].src \in 1 .. n - 1
      /\ \A c \in row.checkpoints : c.src \in 1 .. n - 1
  BY <1>1 DEF Journal!Projected
<1>3. CASE e.type = "checkpoint" /\ e.turn
  <2>1. new = [row EXCEPT !.checkpoints = @ \cup {cp}]
    BY <1>1, <1>2, <1>3 DEF Journal!Project
  <2>2. cp \in Journal!Checkpoints
    BY <1>1 DEF Journal!Checkpoints
  <2>3. /\ new \in Journal!ChatRows
        /\ new.policy = row.policy /\ new.parent = row.parent /\ new.from = row.from
        /\ new.events = row.events /\ new.entries = row.entries
        /\ new.checkpoints = row.checkpoints \cup {cp}
    BY <2>1, <2>2 DEF Journal!ChatRows
  <2>4. Extends(row, new)
    BY <2>3, <1>1, PrefixItself DEF Extends
  <2>5. SubSeq(row.entries, 1, len) = row.entries
    BY <1>1, SubSeqFull
  <2>6. ~Journal!Portable(e)
    BY <1>3 DEF Journal!Portable
  <2>7. {new.entries[i].src : i \in DOMAIN new.entries} =
          {m \in 1 .. n : Journal!Portable(new.events[m])}
    BY <1>1, <2>3, <2>6 DEF Journal!Projected
  <2>8. {c.src : c \in new.checkpoints} =
          {m \in 1 .. n : new.events[m].type = "checkpoint" /\ new.events[m].turn}
    <3>1. {c.src : c \in new.checkpoints} = {c.src : c \in row.checkpoints} \cup {n}
      <4>1. cp.src = n /\ new.checkpoints = row.checkpoints \cup {cp}
        BY <2>3
      <4> HIDE DEF new, cp
      <4> QED BY <4>1
    <3>2. {c.src : c \in row.checkpoints} =
            {m \in 1 .. n - 1 : row.events[m].type = "checkpoint" /\ row.events[m].turn}
      BY DEF Journal!Projected
    <3> HIDE DEF new
    <3> QED BY <1>1, <1>3, <2>3, <3>1, <3>2
  <2>9. \A c \in new.checkpoints :
          /\ c.upto \in 0 .. Len(new.entries)
          /\ c.digest = SubSeq(new.entries, 1, c.upto)
          /\ \A i \in DOMAIN new.entries : i <= c.upto <=> new.entries[i].src < c.src
    <3>1. \A c \in row.checkpoints :
            /\ c.upto \in 0 .. len
            /\ c.digest = SubSeq(row.entries, 1, c.upto)
            /\ \A i \in 1 .. len : i <= c.upto <=> row.entries[i].src < c.src
      BY <1>1 DEF Journal!Projected
    <3>2. /\ cp.upto \in 0 .. len
          /\ cp.digest = SubSeq(row.entries, 1, cp.upto)
          /\ \A i \in 1 .. len : i <= cp.upto <=> row.entries[i].src < cp.src
      BY <1>1, <1>2, <2>5
    <3> HIDE DEF cp, new
    <3> QED BY <1>1, <2>3, <3>1, <3>2
  <2>10. Journal!Projected(new, n)
    <3>1. \A i \in DOMAIN row.entries :
            /\ row.entries[i].type = row.events[row.entries[i].src].type
            /\ row.entries[i].text = row.events[row.entries[i].src].text
            /\ \A j \in 1 .. i - 1 : row.entries[j].src < row.entries[i].src
      BY DEF Journal!Projected
    <3>2. \A i \in DOMAIN new.entries :
            /\ new.entries[i].type = new.events[new.entries[i].src].type
            /\ new.entries[i].text = new.events[new.entries[i].src].text
            /\ \A j \in 1 .. i - 1 : new.entries[j].src < new.entries[i].src
      <4> HIDE DEF new
      <4> QED BY <2>3, <3>1
    <3> HIDE DEF new
    <3> QED BY <3>2, <2>7, <2>8, <2>9 DEF Journal!Projected
  <2> QED BY <2>4, <2>10
<1>4. CASE Journal!Portable(e)
  <2>1. e.type \in {"message", "anchor"} /\ e.type # "checkpoint" /\ e.text \in Journal!Texts
    BY <1>1, <1>4 DEF Journal!Portable, Journal!Events
  <2>2. entry \in Journal!Entries
    BY <1>1, <2>1 DEF Journal!Entries
  <2>3. new = [row EXCEPT !.entries = Append(@, entry)]
    BY <1>1, <1>2, <1>4, <2>1 DEF Journal!Project
  <2>4. /\ Append(row.entries, entry) \in Seq(Journal!Entries)
        /\ Len(Append(row.entries, entry)) = len + 1
        /\ \A i \in 1 .. len : Append(row.entries, entry)[i] = row.entries[i]
        /\ Append(row.entries, entry)[len + 1] = entry
        /\ DOMAIN Append(row.entries, entry) = 1 .. len + 1
    BY <1>1, <2>2, AppendProperties, LenProperties
  <2>5. /\ new \in Journal!ChatRows
        /\ new.policy = row.policy /\ new.parent = row.parent /\ new.from = row.from
        /\ new.events = row.events /\ new.entries = Append(row.entries, entry)
        /\ new.checkpoints = row.checkpoints
    BY <2>3, <2>4 DEF Journal!ChatRows
  <2>6. Extends(row, new)
    BY <2>2, <2>5, <1>1, AppendExtends DEF Extends
  <2>7. 1 .. len + 1 = (1 .. len) \cup {len + 1} /\ entry.src = n
    BY <1>1
  <2>8. {new.entries[i].src : i \in DOMAIN new.entries} =
          {m \in 1 .. n : Journal!Portable(new.events[m])}
    <3>1. {new.entries[i].src : i \in DOMAIN new.entries} =
            {row.entries[i].src : i \in DOMAIN row.entries} \cup {n}
      BY <1>1, <2>4, <2>5, <2>7
    <3> QED BY <1>1, <1>4, <2>5, <3>1 DEF Journal!Projected
  <2>9. {c.src : c \in new.checkpoints} =
          {m \in 1 .. n : new.events[m].type = "checkpoint" /\ new.events[m].turn}
    BY <1>1, <2>1, <2>5 DEF Journal!Projected
  <2>10. ASSUME NEW c \in new.checkpoints
         PROVE  /\ c.upto \in 0 .. Len(new.entries)
                /\ c.digest = SubSeq(new.entries, 1, c.upto)
                /\ \A i \in DOMAIN new.entries : i <= c.upto <=> new.entries[i].src < c.src
    <3>1. /\ c.upto \in 0 .. len /\ c.src \in 1 .. n - 1
          /\ c.digest = SubSeq(row.entries, 1, c.upto)
          /\ \A i \in 1 .. len : i <= c.upto <=> row.entries[i].src < c.src
      BY <1>1, <1>2, <2>5 DEF Journal!Projected
    <3>2. SubSeq(new.entries, 1, c.upto) = SubSeq(row.entries, 1, c.upto)
      BY <1>1, <2>2, <2>5, <3>1, AppendKeepsStart
    <3>3. ~(len + 1 <= c.upto) /\ ~(n < c.src) /\ c.upto \in 0 .. len + 1
      BY <3>1, <1>1
    <3>4. ASSUME NEW i \in 1 .. len + 1
          PROVE  i <= c.upto <=> new.entries[i].src < c.src
      BY <3>1, <3>3, <2>4, <2>5, <2>7
    <3> QED BY <3>1, <3>2, <3>3, <3>4, <2>4, <2>5
  <2>11. ASSUME NEW i \in DOMAIN new.entries
         PROVE  /\ new.entries[i].type = new.events[new.entries[i].src].type
                /\ new.entries[i].text = new.events[new.entries[i].src].text
                /\ \A j \in 1 .. i - 1 : new.entries[j].src < new.entries[i].src
    <3>1. CASE i \in 1 .. len
      <4>1. new.entries[i] = row.entries[i]
            /\ \A j \in 1 .. i - 1 : new.entries[j] = row.entries[j]
        BY <3>1, <1>1, <2>4, <2>5
      <4> QED BY <3>1, <4>1, <1>1, <2>5 DEF Journal!Projected
    <3>2. CASE i = len + 1
      <4>1. /\ new.entries[i] = entry
            /\ \A j \in 1 .. i - 1 : new.entries[j].src \in 1 .. n - 1
        BY <3>2, <1>1, <1>2, <2>4, <2>5
      <4> QED BY <4>1, <2>5, <1>1
    <3> QED BY <3>1, <3>2, <2>4, <2>5, <2>7
  <2>12. Journal!Projected(new, n)
    <3> HIDE DEF new
    <3> QED BY <2>8, <2>9, <2>10, <2>11 DEF Journal!Projected
  <2> QED BY <2>6, <2>12
<1>5. CASE ~(e.type = "checkpoint" /\ e.turn) /\ ~Journal!Portable(e)
  <2>1. new = row
    BY <1>5 DEF Journal!Project
  <2>2. Journal!Projected(row, n)
    <3>1. {m \in 1 .. n : Journal!Portable(row.events[m])} =
            {m \in 1 .. n - 1 : Journal!Portable(row.events[m])}
      BY <1>1, <1>5
    <3>2. {m \in 1 .. n : row.events[m].type = "checkpoint" /\ row.events[m].turn} =
            {m \in 1 .. n - 1 : row.events[m].type = "checkpoint" /\ row.events[m].turn}
      BY <1>1, <1>5
    <3> QED BY <3>1, <3>2 DEF Journal!Projected
  <2> QED BY <2>1, <2>2, Untouched
<1> QED BY <1>3, <1>4, <1>5

\* An event that is projected already is not projected again.
LEMMA ProjectedAlready ==
  ASSUME NEW row \in Journal!ChatRows, NEW n \in 1 .. Len(row.events),
         Journal!Projected(row, Len(row.events))
  PROVE  Journal!Project(row, n) = row
<1> DEFINE e == row.events[n]
<1>1. /\ DOMAIN row.entries = 1 .. Len(row.entries)
      /\ n \in 1 .. Len(row.events)
  BY RowIs
<1>2. ASSUME Journal!Portable(e) PROVE \E i \in 1 .. Len(row.entries) : row.entries[i].src = n
  <2>1. n \in {row.entries[i].src : i \in DOMAIN row.entries}
    BY <1>1, <1>2 DEF Journal!Projected
  <2> QED BY <2>1, <1>1
<1>3. ASSUME e.type = "checkpoint", e.turn PROVE \E c \in row.checkpoints : c.src = n
  <2>1. n \in {c.src : c \in row.checkpoints}
    BY <1>1, <1>3 DEF Journal!Projected
  <2> QED BY <2>1
<1> QED BY <1>2, <1>3 DEF Journal!Project

\* A start projects what is not projected yet, of the journal's every event.
LEMMA Backfilling ==
  ASSUME NEW row \in Journal!ChatRows,
         Journal!Projected(row, 0) \/ Journal!Projected(row, Len(row.events))
  PROVE  /\ Extends(row, Journal!Backfilled(row))
         /\ Journal!Projected(Journal!Backfilled(row), Len(row.events))
<1> DEFINE k == Len(row.events)
<1>1. k \in Nat
  BY RowIs
<1>2. PICK f : Backfill(row, f, k) /\ Journal!Backfilled(row) = f[k]
  BY <1>1, BackfillIs
<1>3. /\ f[0] = row
      /\ \A n \in 1 .. k : f[n] = Journal!Project(f[n - 1], n)
  <2>1. 0 \in 0 .. k /\ 0 = 0
    BY <1>1
  <2>2. f[0] = row
    BY <2>1, <1>2 DEF Backfill
  <2>3. ASSUME NEW n \in 1 .. k PROVE f[n] = Journal!Project(f[n - 1], n)
    <3>1. n \in 0 .. k /\ n # 0
      BY <1>1
    <3> QED BY <3>1, <1>2 DEF Backfill
  <2> QED BY <2>2, <2>3
<1>4. CASE Journal!Projected(row, k)
  <2> DEFINE S == {n \in Nat : n <= k => f[n] = row}
  <2>1. 0 \in S
    BY <1>3
  <2>2. ASSUME NEW n \in Nat, n \in S PROVE n + 1 \in S
    <3> SUFFICES ASSUME n + 1 <= k PROVE f[n + 1] = row
      OBVIOUS
    <3>1. n <= k /\ n + 1 \in 1 .. k /\ (n + 1) - 1 = n
      BY <1>1
    <3>2. f[n] = row /\ f[n + 1] = Journal!Project(f[n], n + 1)
      BY <3>1, <2>2, <1>3
    <3> QED BY <3>1, <3>2, <1>4, ProjectedAlready
  <2> HIDE DEF S
  <2>3. Nat \subseteq S
    BY <2>1, <2>2, NatSet
  <2>4. f[k] = row
    BY <2>3, <1>1 DEF S
  <2> QED BY <2>4, <1>2, <1>4, Untouched
<1>5. CASE Journal!Projected(row, 0)
  <2>1. row.entries = <<>> /\ row.checkpoints = {}
    <3>1. {m \in 1 .. 0 : Journal!Portable(row.events[m])} = {}
          /\ {m \in 1 .. 0 : row.events[m].type = "checkpoint" /\ row.events[m].turn} = {}
      OBVIOUS
    <3>2. {row.entries[i].src : i \in DOMAIN row.entries} = {} /\ {c.src : c \in row.checkpoints} = {}
      BY <3>1, <1>5 DEF Journal!Projected
    <3>3. DOMAIN row.entries = {} /\ row.checkpoints = {}
      BY <3>2
    <3> QED BY <3>3, RowIs, EmptySeq
  <2> DEFINE S == {n \in Nat : n <= k => Extends(row, f[n]) /\ Journal!Projected(f[n], n)}
  <2>2. 0 \in S
    BY <1>3, <1>5, Untouched
  <2>3. ASSUME NEW n \in Nat, n \in S PROVE n + 1 \in S
    <3> SUFFICES ASSUME n + 1 <= k
                 PROVE  Extends(row, f[n + 1]) /\ Journal!Projected(f[n + 1], n + 1)
      OBVIOUS
    <3>1. n <= k /\ n + 1 \in 1 .. k /\ (n + 1) - 1 = n
      BY <1>1
    <3>2. /\ Extends(row, f[n]) /\ Journal!Projected(f[n], n)
          /\ f[n + 1] = Journal!Project(f[n], n + 1)
      BY <3>1, <2>3, <1>3
    <3>3. f[n] \in Journal!ChatRows /\ Len(f[n].events) = k
      BY <3>2 DEF Extends
    <3>4. Extends(f[n], f[n + 1]) /\ Journal!Projected(f[n + 1], n + 1)
      BY <3>1, <3>2, <3>3, ProjectNext
    <3>5. f[n + 1] \in Journal!ChatRows /\ Journal!IsPrefix(row.entries, f[n + 1].entries)
      BY <3>4, <2>1, RowIs, EmptyPrefix DEF Extends
    <3>6. Extends(row, f[n + 1])
      BY <3>2, <3>4, <3>5, <2>1 DEF Extends
    <3> QED BY <3>4, <3>6
  <2> HIDE DEF S
  <2>4. Nat \subseteq S
    BY <2>2, <2>3, NatSet
  <2>5. Extends(row, f[k]) /\ Journal!Projected(f[k], k)
    BY <2>4, <1>1 DEF S
  <2> QED BY <2>5, <1>2
<1> QED BY <1>4, <1>5

\* One checkpoint for an event.
LEMMA CheckpointsApart ==
  ASSUME NEW row \in Journal!ChatRows, NEW n \in Nat, Journal!Projected(row, n),
         NEW a \in row.checkpoints, NEW b \in row.checkpoints, a.src = b.src
  PROVE  a = b
<1>1. /\ a \in Journal!Checkpoints /\ b \in Journal!Checkpoints
      /\ Len(row.entries) \in Nat /\ DOMAIN row.entries = 1 .. Len(row.entries)
  BY RowIs
<1>2. /\ a.upto \in 0 .. Len(row.entries) /\ b.upto \in 0 .. Len(row.entries)
      /\ a.digest = SubSeq(row.entries, 1, a.upto) /\ b.digest = SubSeq(row.entries, 1, b.upto)
      /\ \A i \in 1 .. Len(row.entries) : i <= a.upto <=> i <= b.upto
  BY <1>1 DEF Journal!Projected
<1>3. a.upto = b.upto
  <2>1. CASE a.upto < b.upto
    <3>1. b.upto \in 1 .. Len(row.entries)
      BY <2>1, <1>2
    <3> QED BY <3>1, <2>1, <1>2
  <2>2. CASE b.upto < a.upto
    <3>1. a.upto \in 1 .. Len(row.entries)
      BY <2>2, <1>2
    <3> QED BY <3>1, <2>2, <1>2
  <2> QED BY <2>1, <2>2, <1>2
<1>4. a.digest = b.digest
  BY <1>2, <1>3
<1> QED BY <1>1, <1>3, <1>4 DEF Journal!Checkpoints

\* A row whose journal has one more event, with what the event brings.
Lengthens(row, new, e) ==
  /\ new \in Journal!ChatRows
  /\ new.policy = row.policy /\ new.parent = row.parent /\ new.from = row.from
  /\ new.events = Append(row.events, e)
  /\ Journal!IsPrefix(row.entries, new.entries)
  /\ row.checkpoints \subseteq new.checkpoints
  /\ Journal!Projected(new, Len(new.events))

\* appendEvent keeps the context that of the whole journal.
LEMMA Appending ==
  ASSUME NEW row \in Journal!ChatRows, NEW e \in Journal!Events,
         Journal!Projected(row, Len(row.events))
  PROVE  Lengthens(row, Journal!Appended(row, e), e)
<1> DEFINE n == Len(row.events)
           longer == [row EXCEPT !.events = Append(@, e)]
           new == Journal!Project(longer, n + 1)
<1>1. /\ n \in Nat /\ row.events \in Seq(Journal!Events)
      /\ DOMAIN row.entries = 1 .. Len(row.entries) /\ Len(row.entries) \in Nat
  BY RowIs
<1>2. /\ Append(row.events, e) \in Seq(Journal!Events)
      /\ Len(Append(row.events, e)) = n + 1
      /\ \A m \in 1 .. n : Append(row.events, e)[m] = row.events[m]
  BY <1>1, AppendProperties
<1>3. /\ longer \in Journal!ChatRows
      /\ longer.policy = row.policy /\ longer.parent = row.parent /\ longer.from = row.from
      /\ longer.events = Append(row.events, e)
      /\ longer.entries = row.entries /\ longer.checkpoints = row.checkpoints
  BY <1>2 DEF Journal!ChatRows
<1> HIDE DEF longer
<1>4. Journal!Projected(longer, n)
  <2>1. {m \in 1 .. n : Journal!Portable(longer.events[m])} =
          {m \in 1 .. n : Journal!Portable(row.events[m])}
    BY <1>2, <1>3
  <2>2. {m \in 1 .. n : longer.events[m].type = "checkpoint" /\ longer.events[m].turn} =
          {m \in 1 .. n : row.events[m].type = "checkpoint" /\ row.events[m].turn}
    BY <1>2, <1>3
  <2>3. \A i \in DOMAIN row.entries : row.entries[i].src \in 1 .. n
    BY DEF Journal!Projected
  <2>4. \A i \in DOMAIN longer.entries :
          /\ longer.entries[i].type = longer.events[longer.entries[i].src].type
          /\ longer.entries[i].text = longer.events[longer.entries[i].src].text
          /\ \A j \in 1 .. i - 1 : longer.entries[j].src < longer.entries[i].src
    BY <2>3, <1>2, <1>3 DEF Journal!Projected
  <2> QED BY <2>1, <2>2, <2>4, <1>3 DEF Journal!Projected
<1>5. n + 1 \in 1 .. Len(longer.events) /\ (n + 1) - 1 = n
  BY <1>1, <1>2, <1>3
<1>6. Extends(longer, new) /\ Journal!Projected(new, n + 1)
  BY <1>3, <1>4, <1>5, ProjectNext
<1>7. new = Journal!Appended(row, e)
  BY DEF Journal!Appended, longer
<1> HIDE DEF new
<1> QED BY <1>2, <1>3, <1>6, <1>7 DEF Lengthens, Extends

\* What a document or a checkpoint holds, piece by piece.
Said == [type : {"message", "anchor"}, text : Journal!Texts]

JournalTypes ==
  /\ journal_chat \in [JournalChats -> Journal!ChatRows \cup {None}]
  /\ journal_outcomes \subseteq JournalTurns \X JournalChats
  /\ journal_default \in {"ask", "full"}
  /\ journal_job \in Journal!Jobs \cup {None}

\* A context is that of the whole journal, or, before the first start is through, empty.
RowsOK ==
  \A c \in Journal!Existing :
    \/ Journal!Projected(journal_chat[c], Len(journal_chat[c].events))
    \/ journal_phase # "open" /\ Journal!Projected(journal_chat[c], 0)

Settles(c, n) == journal_chat[c].events[n].type = "settlement"
SettledOK ==
  /\ \A c \in Journal!Existing : \A n \in DOMAIN journal_chat[c].events :
       /\ Settles(c, n) => <<journal_chat[c].events[n].text, c>> \in journal_outcomes
       /\ \A m \in DOMAIN journal_chat[c].events :
            /\ Settles(c, n) /\ Settles(c, m)
            /\ journal_chat[c].events[n].text = journal_chat[c].events[m].text
            => n = m
  /\ \A o, p \in journal_outcomes : o[1] = p[1] => o = p

\* A settlement that is to be journaled is known, and in no journal yet.
JobOK ==
  journal_job # None =>
    /\ journal_phase = "open" /\ journal_job.todo # <<>>
    /\ journal_chat[journal_job.chat] # None
    /\ IF Head(journal_job.todo).type = "settlement"
       THEN /\ Len(journal_job.todo) = 1
            /\ <<Head(journal_job.todo).text, journal_job.chat>> \in journal_outcomes
            /\ \A c \in Journal!Existing : \A n \in DOMAIN journal_chat[c].events :
                 Settles(c, n) => journal_chat[c].events[n].text # Head(journal_job.todo).text
       ELSE \A k \in DOMAIN journal_job.todo : ~journal_job.todo[k].turn

\* The checkpoint a fork comes from is there as long as the fork names it.
SourcesOK ==
  \A c \in Journal!Existing : journal_chat[c].from # None =>
    /\ journal_chat[c].from.chat \in Journal!Existing
    /\ \E cp \in journal_chat[journal_chat[c].from.chat].checkpoints :
         cp.src = journal_chat[c].from.src

JournalInv ==
  /\ JournalTypes /\ RowsOK /\ SettledOK /\ JobOK /\ SourcesOK
  /\ Journal!ForksStartAtCheckpoint /\ Journal!ImportsAreClean

-----------------------------------------------------------------------------
\* A request is settled for one chat, whose journal has it in one place.
LEMMA NoSettlementTwice == JournalInv => Journal!SettledOnce
<1> SUFFICES ASSUME JournalInv, NEW c \in Journal!Existing, NEW d \in Journal!Existing,
                    NEW n \in DOMAIN journal_chat[c].events,
                    NEW m \in DOMAIN journal_chat[d].events,
                    journal_chat[c].events[n].text \in JournalTurns,
                    journal_chat[d].events[m].text = journal_chat[c].events[n].text
             PROVE  c = d /\ n = m
  BY DEF Journal!SettledOnce
<1>1. journal_chat[c] \in Journal!ChatRows /\ journal_chat[d] \in Journal!ChatRows
  BY DEF JournalInv, JournalTypes, Journal!Existing
<1>2. journal_chat[c].events[n] \in Journal!Events /\ journal_chat[d].events[m] \in Journal!Events
  BY <1>1, RowIs
<1>3. Settles(c, n) /\ Settles(d, m)
  BY <1>2, JournalAssumption DEF Journal!Events, Settles
<1>4. c = d
  <2> DEFINE o == <<journal_chat[c].events[n].text, c>>
             p == <<journal_chat[d].events[m].text, d>>
  <2>1. o \in journal_outcomes /\ p \in journal_outcomes /\ o[1] = p[1]
    BY <1>3 DEF JournalInv, SettledOK
  <2>2. o = p
    BY <2>1 DEF JournalInv, SettledOK
  <2> QED BY <2>2
<1>5. n = m
  BY <1>3, <1>4 DEF JournalInv, SettledOK
<1> QED BY <1>4, <1>5

\* What is written and what is to be written are the same together after each write.
LEMMA MovesOver ==
  ASSUME NEW S, NEW s \in Seq(S), NEW t \in Seq(S), t # <<>>
  PROVE  Append(s, Head(t)) \o Tail(t) = s \o t
<1>1. /\ Head(t) \in S /\ Tail(t) \in Seq(S) /\ Len(Tail(t)) = Len(t) - 1
      /\ \A i \in 1 .. Len(Tail(t)) : Tail(t)[i] = t[i + 1]
      /\ Len(t) \in Nat /\ Len(t) > 0 /\ Len(s) \in Nat /\ Head(t) = t[1]
  BY HeadTailProperties, LenProperties, EmptySeq
<1>2. /\ Append(s, Head(t)) \in Seq(S) /\ Len(Append(s, Head(t))) = Len(s) + 1
      /\ \A i \in 1 .. Len(s) : Append(s, Head(t))[i] = s[i]
      /\ Append(s, Head(t))[Len(s) + 1] = Head(t)
  BY <1>1, AppendProperties
<1> DEFINE l == Append(s, Head(t)) \o Tail(t)
           r == s \o t
<1>3. /\ l \in Seq(S) /\ Len(l) = Len(s) + Len(t)
      /\ \A i \in 1 .. Len(s) + Len(t) :
           l[i] = IF i <= Len(s) + 1 THEN Append(s, Head(t))[i] ELSE Tail(t)[i - (Len(s) + 1)]
  BY <1>1, <1>2, ConcatProperties
<1>4. /\ r \in Seq(S) /\ Len(r) = Len(s) + Len(t)
      /\ \A i \in 1 .. Len(s) + Len(t) : r[i] = IF i <= Len(s) THEN s[i] ELSE t[i - Len(s)]
  BY <1>1, ConcatProperties
<1>5. ASSUME NEW i \in 1 .. Len(s) + Len(t) PROVE l[i] = r[i]
  <2>1. CASE i <= Len(s)
    BY <2>1, <1>1, <1>2, <1>3, <1>4
  <2>2. CASE i = Len(s) + 1
    BY <2>2, <1>1, <1>2, <1>3, <1>4
  <2>3. CASE i > Len(s) + 1
    <3>1. /\ l[i] = Tail(t)[i - (Len(s) + 1)] /\ r[i] = t[i - Len(s)]
          /\ i - (Len(s) + 1) \in 1 .. Len(Tail(t)) /\ (i - (Len(s) + 1)) + 1 = i - Len(s)
      BY <2>3, <1>1, <1>3, <1>4
    <3> QED BY <3>1, <1>1
  <2> QED BY <2>1, <2>2, <2>3, <1>1
<1> HIDE DEF l, r
<1>6. l = r
  BY <1>3, <1>4, <1>5, SeqEqual
<1> QED BY <1>6 DEF l, r

LEMMA FirstOfTwo ==
  ASSUME NEW S, NEW s \in Seq(S), NEW t \in Seq(S)
  PROVE  Journal!IsPrefix(s, s \o t)
<1>1. /\ Len(s) \in Nat /\ Len(t) \in Nat /\ Len(s \o t) = Len(s) + Len(t)
      /\ \A i \in 1 .. Len(s) : s[i] \in S /\ (s \o t)[i] = s[i]
  BY LenProperties, ElementOfSeq, ConcatProperties
<1>2. /\ SubSeq(s, 1, Len(s)) \in Seq(S) /\ Len(SubSeq(s, 1, Len(s))) = Len(s)
      /\ \A i \in 1 .. Len(s) : SubSeq(s, 1, Len(s))[i] = s[i]
  BY <1>1, SubSeqProperties
<1>3. /\ SubSeq(s \o t, 1, Len(s)) \in Seq(S) /\ Len(SubSeq(s \o t, 1, Len(s))) = Len(s)
      /\ \A i \in 1 .. Len(s) : SubSeq(s \o t, 1, Len(s))[i] = (s \o t)[i]
  BY <1>1, SubSeqProperties
<1>4. SubSeq(s, 1, Len(s)) = SubSeq(s \o t, 1, Len(s))
  BY <1>1, <1>2, <1>3, SeqEqual
<1> QED BY <1>1, <1>4 DEF Journal!IsPrefix

-----------------------------------------------------------------------------
\* A function on 1 .. n is a sequence of what it gives.
LEMMA ListIs ==
  ASSUME NEW S, NEW f, NEW n \in Nat, f = [i \in 1 .. n |-> f[i]], \A i \in 1 .. n : f[i] \in S
  PROVE  f \in Seq(S) /\ Len(f) = n
<1>1. f \in [1 .. n -> S]
  OBVIOUS
<1>2. f \in Seq(S)
  BY <1>1, SeqDef
<1> QED BY <1>1, <1>2, LenProperties

\* The context of entries is made of what documents are made of.
LEMMA ContextIs ==
  ASSUME NEW s \in Seq(Journal!Entries)
  PROVE  Journal!Context(s) \in Seq(Said)
<1> DEFINE d == Journal!Context(s)
<1>1. Len(s) \in Nat /\ \A i \in 1 .. Len(s) : s[i] \in Journal!Entries
  BY LenProperties, ElementOfSeq
<1>2. d = [i \in 1 .. Len(s) |-> [type |-> s[i].type, text |-> s[i].text]]
  BY DEF Journal!Context
<1>3. \A i \in 1 .. Len(s) : d[i] \in Said
  BY <1>1, <1>2 DEF Journal!Entries, Said
<1>4. d = [i \in 1 .. Len(s) |-> d[i]]
  BY <1>2
<1> QED BY <1>1, <1>3, <1>4, ListIs

\* A context is written as events that no turn had, between two notes.
LEMMA WrittenIs ==
  ASSUME NEW d \in Seq(Said)
  PROVE  /\ Journal!Written(d) \in Seq(Journal!Events)
         /\ Journal!Written(d) # <<>> /\ Head(Journal!Written(d)) = Journal!Note
         /\ \A k \in DOMAIN Journal!Written(d) :
              /\ ~Journal!Written(d)[k].turn
              /\ \/ Journal!Written(d)[k].text = "plain"
                 \/ \E i \in DOMAIN d : Journal!Written(d)[k].text = d[i].text
<1> DEFINE es == Journal!AsEvents(d)
           note == Journal!Note
           notes == <<note>>
           begun == notes \o es
           all == Journal!Written(d)
<1>1. Len(d) \in Nat /\ DOMAIN d = 1 .. Len(d) /\ \A i \in 1 .. Len(d) : d[i] \in Said
  BY LenProperties, ElementOfSeq
<1>2. note \in Journal!Events /\ ~note.turn /\ note.text = "plain"
  BY DEF Journal!Note, Journal!Event, Journal!Events, Journal!Types, Journal!Texts
<1>3. /\ es = [i \in 1 .. Len(d) |-> es[i]]
      /\ \A i \in 1 .. Len(d) : /\ es[i] \in Journal!Events
                                /\ ~es[i].turn /\ es[i].text = d[i].text
  <2>1. es = [i \in 1 .. Len(d) |-> Journal!Event(d[i].type, d[i].text, FALSE)]
    BY DEF Journal!AsEvents
  <2>2. \A i \in 1 .. Len(d) : es[i] = Journal!Event(d[i].type, d[i].text, FALSE)
    BY <2>1
  <2>3. es = [i \in 1 .. Len(d) |-> es[i]]
    BY <2>1
  <2>4. ASSUME NEW i \in 1 .. Len(d)
        PROVE  es[i] \in Journal!Events /\ ~es[i].turn /\ es[i].text = d[i].text
    <3>1. es[i] = [type |-> d[i].type, text |-> d[i].text, turn |-> FALSE]
      BY <2>2 DEF Journal!Event
    <3>2. d[i].type \in Journal!Types \ {"settlement"} /\ d[i].text \in Journal!Texts
      BY <1>1 DEF Said, Journal!Types
    <3> QED BY <3>1, <3>2 DEF Journal!Events
  <2> QED BY <2>3, <2>4
<1> HIDE DEF es, note
<1>4. es \in Seq(Journal!Events) /\ Len(es) = Len(d)
  BY <1>1, <1>3, ListIs
<1>5. /\ notes \in Seq(Journal!Events) /\ Len(notes) = 1 /\ notes[1] = note
  BY <1>2
<1> HIDE DEF notes
<1>6. /\ begun \in Seq(Journal!Events) /\ Len(begun) = Len(d) + 1
      /\ \A k \in 1 .. Len(d) + 1 : begun[k] = IF k <= 1 THEN notes[k] ELSE es[k - 1]
  <2>1. /\ begun \in Seq(Journal!Events) /\ Len(begun) = Len(notes) + Len(es)
        /\ \A k \in 1 .. Len(notes) + Len(es) :
             begun[k] = IF k <= Len(notes) THEN notes[k] ELSE es[k - Len(notes)]
    <3>1. notes \in Seq(Journal!Events) /\ es \in Seq(Journal!Events)
      BY <1>4, <1>5
    <3> QED BY <3>1, ConcatProperties
  <2> HIDE DEF begun
  <2> QED BY <2>1, <1>1, <1>4, <1>5
<1>7. all = begun \o notes
  BY DEF Journal!Written, notes, note, es
<1> HIDE DEF begun, all
<1>8. /\ all \in Seq(Journal!Events) /\ Len(all) = Len(d) + 2
      /\ \A k \in 1 .. Len(d) + 2 : all[k] = IF k <= Len(d) + 1 THEN begun[k] ELSE notes[k - (Len(d) + 1)]
  <2>1. /\ all \in Seq(Journal!Events) /\ Len(all) = Len(begun) + Len(notes)
        /\ \A k \in 1 .. Len(begun) + Len(notes) :
             all[k] = IF k <= Len(begun) THEN begun[k] ELSE notes[k - Len(begun)]
    BY <1>5, <1>6, <1>7, ConcatProperties
  <2> QED BY <2>1, <1>1, <1>5, <1>6
<1>9. all # <<>> /\ Head(all) = note /\ DOMAIN all = 1 .. Len(d) + 2
  <2>1. all[1] = note /\ Len(all) # 0
    BY <1>1, <1>5, <1>6, <1>8
  <2> QED BY <2>1, <1>8, EmptySeq, LenProperties
<1>10. ASSUME NEW k \in 1 .. Len(d) + 2
       PROVE  all[k] = note \/ \E i \in 1 .. Len(d) : all[k] = es[i]
  <2>1. CASE k = 1 \/ k = Len(d) + 2
    BY <2>1, <1>1, <1>5, <1>6, <1>8
  <2>2. CASE k # 1 /\ k # Len(d) + 2
    <3>1. k - 1 \in 1 .. Len(d) /\ all[k] = es[k - 1]
      BY <2>2, <1>1, <1>6, <1>8
    <3> QED BY <3>1
  <2> QED BY <2>1, <2>2
<1>11. ASSUME NEW k \in DOMAIN all
       PROVE  ~all[k].turn /\ (all[k].text = "plain" \/ \E i \in DOMAIN d : all[k].text = d[i].text)
  BY <1>1, <1>2, <1>3, <1>9, <1>10
<1> QED BY <1>8, <1>9, <1>11 DEF all, note

\* Whatever is previewed, of this program or another, is a context.
LEMMA DocumentsAreSaid ==
  ASSUME JournalTypes, NEW d \in Journal!Documents
  PROVE  d \in Seq(Said)
<1>1. CASE \E c \in JournalChats : journal_chat[c] # None /\ d = Journal!Export(c)
  <2>1. PICK c \in JournalChats : journal_chat[c] # None /\ d = Journal!Export(c)
    BY <1>1
  <2> DEFINE s == journal_chat[c].entries
  <2>2. s \in Seq(Journal!Entries) /\ Len(s) \in Nat /\ \A i \in 1 .. Len(s) : s[i] \in Journal!Entries
    BY <2>1, RowIs DEF JournalTypes
  <2>3. d = [i \in 1 .. Len(s) |-> [type |-> s[i].type, text |-> Journal!Scrub(s[i].text)]]
    BY <2>1 DEF Journal!Export
  <2>4. \A i \in 1 .. Len(s) : d[i] \in Said
    BY <2>2, <2>3 DEF Journal!Scrub, Journal!Entries, Said, Journal!Texts
  <2>5. d = [i \in 1 .. Len(s) |-> d[i]]
    BY <2>3
  <2> QED BY <2>2, <2>4, <2>5, ListIs
<1>2. CASE d \in Journal!CliDocuments
  <2>1. PICK n \in 1 .. 2 : d = [i \in 1 .. n |-> [type |-> "message", text |-> "plain"]]
    BY <1>2 DEF Journal!CliDocuments
  <2>2. n \in Nat /\ d = [i \in 1 .. n |-> d[i]] /\ \A i \in 1 .. n : d[i] \in Said
    BY <2>1 DEF Said, Journal!Texts
  <2> QED BY <2>2, ListIs
<1>3. CASE \E text \in Journal!Texts : d = <<[type |-> "message", text |-> text]>>
  <2>1. PICK text \in Journal!Texts : d = <<[type |-> "message", text |-> text]>>
    BY <1>3
  <2>2. [type |-> "message", text |-> text] \in Said
    BY DEF Said
  <2> QED BY <2>1, <2>2
<1> QED BY <1>1, <1>2, <1>3 DEF Journal!Documents

\* What a chat that exists is.
LEMMA ChatIs ==
  ASSUME JournalTypes, NEW c \in Journal!Existing
  PROVE  /\ c \in JournalChats /\ journal_chat[c] \in Journal!ChatRows /\ journal_chat[c] # None
         /\ journal_chat[c].events \in Seq(Journal!Events) /\ Len(journal_chat[c].events) \in Nat
         /\ DOMAIN journal_chat[c].events = 1 .. Len(journal_chat[c].events)
BY RowIs DEF JournalTypes, Journal!Existing

\* What a job under way is.
LEMMA JobIs ==
  ASSUME JournalTypes, journal_job # None
  PROVE  /\ journal_job \in Journal!Jobs /\ journal_job.chat \in JournalChats
         /\ journal_job.todo \in Seq(Journal!Events) /\ Len(journal_job.todo) \in Nat
         /\ DOMAIN journal_job.todo = 1 .. Len(journal_job.todo)
<1>1. journal_job \in Journal!Jobs
  BY DEF JournalTypes
<1>2. journal_job.chat \in JournalChats /\ journal_job.todo \in Seq(Journal!Events)
  BY <1>1 DEF Journal!Jobs
<1> QED BY <1>1, <1>2, LenProperties

\* The context depends on the journal, the entries and the checkpoints alone.
LEMMA SameProjection ==
  ASSUME NEW row, NEW new, NEW n, Journal!Projected(row, n),
         new.events = row.events, new.entries = row.entries, new.checkpoints = row.checkpoints
  PROVE  Journal!Projected(new, n)
BY DEF Journal!Projected

\* What a fork holds of its checkpoint when nothing more of it is coming.
CopiedAsFar(c, cp) ==
  \E n \in 0 .. Len(journal_chat[c].events) :
    /\ Journal!IsPrefix(SubSeq(journal_chat[c].events, 1, n),
                        Journal!Written(Journal!Context(cp.digest)))
    /\ \A m \in n + 1 .. Len(journal_chat[c].events) : journal_chat[c].events[m].turn

\* Whether its copy is under way or was cut short, a fork holds a beginning of it.
LEMMA CutShort ==
  ASSUME JournalInv, NEW c \in Journal!Existing, journal_chat[c].from # None,
         NEW cp \in journal_chat[journal_chat[c].from.chat].checkpoints,
         cp.src = journal_chat[c].from.src
  PROVE  CopiedAsFar(c, cp)
<1> DEFINE es == journal_chat[c].events
           whole == Journal!Written(Journal!Context(cp.digest))
<1>1. es \in Seq(Journal!Events) /\ Len(es) \in Nat
  BY ChatIs DEF JournalInv
<1>2. IF Journal!Copying(c) THEN es \o journal_job.todo = whole ELSE CopiedAsFar(c, cp)
  BY DEF JournalInv, Journal!ForksStartAtCheckpoint, CopiedAsFar
<1>3. CASE Journal!Copying(c)
  <2>1. journal_job.todo \in Seq(Journal!Events)
    BY <1>3, JobIs DEF JournalInv, Journal!Copying
  <2>2. Journal!IsPrefix(es, whole)
    BY <1>1, <1>2, <1>3, <2>1, FirstOfTwo
  <2>3. SubSeq(es, 1, Len(es)) = es /\ Len(es) \in 0 .. Len(es) /\ Len(es) + 1 .. Len(es) = {}
    BY <1>1, SubSeqFull
  <2> HIDE DEF es, whole
  <2>4. \E n \in 0 .. Len(es) :
          Journal!IsPrefix(SubSeq(es, 1, n), whole) /\ \A m \in n + 1 .. Len(es) : es[m].turn
    BY <2>2, <2>3
  <2> QED BY <2>4 DEF CopiedAsFar, es, whole
<1> QED BY <1>2, <1>3

\* What becomes of the rows in any step: of a chat that stays, the journal and the context.
Keeps(row, new) ==
  /\ new \in Journal!ChatRows
  /\ new.from \in {row.from, None}
  /\ row.checkpoints \subseteq new.checkpoints
  /\ \/ new.checkpoints = row.checkpoints
     \/ \E n \in Nat : Journal!Projected(new, n)

\* The checkpoint that a fork names is the same before and after.
LEMMA SameCheckpoint ==
  ASSUME NEW row \in Journal!ChatRows, NEW new, Keeps(row, new), NEW src,
         \E cp \in row.checkpoints : cp.src = src
  PROVE  /\ \E cp \in new.checkpoints : cp.src = src
         /\ \A cp \in new.checkpoints : cp.src = src => cp \in row.checkpoints
<1>1. PICK old \in row.checkpoints : old.src = src
  OBVIOUS
<1>2. old \in new.checkpoints
  BY DEF Keeps
<1>3. ASSUME NEW cp \in new.checkpoints, cp.src = src PROVE cp \in row.checkpoints
  <2>1. CASE new.checkpoints = row.checkpoints
    BY <2>1
  <2>2. CASE \E n \in Nat : Journal!Projected(new, n)
    <3>1. PICK n \in Nat : Journal!Projected(new, n)
      BY <2>2
    <3>2. cp = old
      BY <3>1, <1>1, <1>2, <1>3, CheckpointsApart DEF Keeps
    <3> QED BY <3>2
  <2> QED BY <2>1, <2>2 DEF Keeps
<1> QED BY <1>1, <1>2, <1>3

\* So a fork that stays keeps its source.
LEMMA SourceStays ==
  ASSUME JournalInv, JournalTypes', NEW c \in Journal!Existing, journal_chat[c].from # None,
         journal_chat[c].from.chat \in Journal!Existing',
         Keeps(journal_chat[journal_chat[c].from.chat], journal_chat'[journal_chat[c].from.chat])
  PROVE  /\ \E cp \in journal_chat'[journal_chat[c].from.chat].checkpoints :
              cp.src = journal_chat[c].from.src
         /\ \A cp \in journal_chat'[journal_chat[c].from.chat].checkpoints :
              cp.src = journal_chat[c].from.src =>
                cp \in journal_chat[journal_chat[c].from.chat].checkpoints
<1> DEFINE s == journal_chat[c].from.chat
<1>1. s \in Journal!Existing /\ \E cp \in journal_chat[s].checkpoints : cp.src = journal_chat[c].from.src
  BY DEF JournalInv, SourcesOK
<1>2. journal_chat[s] \in Journal!ChatRows
  BY <1>1, ChatIs DEF JournalInv
<1> DEFINE row == journal_chat[s]
           new == journal_chat'[s]
           src == journal_chat[c].from.src
<1>3. row \in Journal!ChatRows /\ Keeps(row, new) /\ \E cp \in row.checkpoints : cp.src = src
  BY <1>1, <1>2
<1> HIDE DEF row, new, src
<1>4. /\ \E cp \in new.checkpoints : cp.src = src
      /\ \A cp \in new.checkpoints : cp.src = src => cp \in row.checkpoints
  BY <1>3, SameCheckpoint
<1> QED BY <1>4 DEF row, new, src

-----------------------------------------------------------------------------
\* The job ends, or nothing of the journals changes.
LEMMA JobGone ==
  ASSUME JournalInv, UNCHANGED <<journal_chat, journal_outcomes>>,
         journal_default' \in {"ask", "full"},
         journal_phase' = journal_phase \/ journal_phase' # "open",
         journal_job' = None \/ (journal_job' = journal_job /\ journal_phase' = journal_phase)
  PROVE  JournalInv'
<1>1. JournalTypes' /\ Journal!Existing' = Journal!Existing
  BY DEF JournalInv, JournalTypes, Journal!Existing
<1>2. RowsOK'
  BY <1>1 DEF JournalInv, RowsOK
<1>3. SettledOK' /\ SourcesOK'
  BY <1>1 DEF JournalInv, SettledOK, SourcesOK, Settles
<1>4. JobOK'
  BY <1>1 DEF JournalInv, JobOK, Settles
<1>5. \A c : Journal!Copying(c)' => Journal!Copying(c) /\ journal_job' = journal_job
  BY DEF Journal!Copying
<1>6. Journal!ImportsAreClean'
  BY <1>1, <1>5 DEF JournalInv, Journal!ImportsAreClean
<1>7. Journal!ForksStartAtCheckpoint'
  <2> SUFFICES ASSUME NEW c \in Journal!Existing', journal_chat'[c].from # None,
                      NEW cp \in journal_chat'[journal_chat'[c].from.chat].checkpoints,
                      cp.src = journal_chat'[c].from.src
               PROVE  IF Journal!Copying(c)'
                      THEN journal_chat'[c].events \o journal_job'.todo
                             = Journal!Written(Journal!Context(cp.digest))
                      ELSE CopiedAsFar(c, cp)'
    BY DEF Journal!ForksStartAtCheckpoint, CopiedAsFar
  <2>1. /\ c \in Journal!Existing /\ journal_chat' = journal_chat /\ journal_chat[c].from # None
        /\ cp \in journal_chat[journal_chat[c].from.chat].checkpoints
        /\ cp.src = journal_chat[c].from.src
    BY <1>1
  <2>2. CASE Journal!Copying(c)'
    <3>1. journal_chat[c].events \o journal_job.todo = Journal!Written(Journal!Context(cp.digest))
      BY <2>1, <2>2, <1>5 DEF JournalInv, Journal!ForksStartAtCheckpoint
    <3> QED BY <3>1, <2>1, <2>2, <1>5
  <2>3. CASE ~Journal!Copying(c)'
    <3>1. CopiedAsFar(c, cp)
      BY <2>1, CutShort
    <3> QED BY <3>1, <2>1, <2>3 DEF CopiedAsFar
  <2> QED BY <2>2, <2>3
<1> QED BY <1>1, <1>2, <1>3, <1>4, <1>6, <1>7 DEF JournalInv

\* A chat goes, and what refers to it is cleared.
LEMMA WithoutIs ==
  ASSUME JournalTypes, NEW gone, journal_chat' = Journal!Without(gone),
         NEW c \in Journal!Existing'
  PROVE  /\ c \in Journal!Existing /\ c # gone
         /\ journal_chat'[c] \in Journal!ChatRows
         /\ journal_chat'[c].policy = journal_chat[c].policy
         /\ journal_chat'[c].events = journal_chat[c].events
         /\ journal_chat'[c].entries = journal_chat[c].entries
         /\ journal_chat'[c].checkpoints = journal_chat[c].checkpoints
         /\ journal_chat'[c].from # None =>
              /\ journal_chat'[c].from = journal_chat[c].from
              /\ journal_chat[c].from.chat # gone
         /\ journal_chat'[c].from \in {journal_chat[c].from, None}
<1>1. c \in JournalChats /\ journal_chat'[c] # None
  BY DEF Journal!Existing
<1>2. journal_chat'[c] =
        IF c = gone \/ journal_chat[c] = None THEN None
        ELSE [journal_chat[c] EXCEPT
                !.parent = IF @ = gone THEN None ELSE @,
                !.from = IF @ # None /\ @.chat = gone THEN None ELSE @]
  BY <1>1 DEF Journal!Without
<1>3. c # gone /\ journal_chat[c] # None /\ c \in Journal!Existing
  BY <1>1, <1>2 DEF Journal!Existing
<1>4. journal_chat[c] \in Journal!ChatRows
  BY <1>3, ChatIs
<1> DEFINE row == journal_chat[c]
           new == journal_chat'[c]
<1>5. new = [row EXCEPT !.parent = IF @ = gone THEN None ELSE @,
                        !.from = IF @ # None /\ @.chat = gone THEN None ELSE @]
  BY <1>2, <1>3
<1> HIDE DEF row, new
<1>6. /\ new.policy = row.policy /\ new.events = row.events /\ new.entries = row.entries
      /\ new.checkpoints = row.checkpoints
      /\ new.from = IF row.from # None /\ row.from.chat = gone THEN None ELSE row.from
      /\ new \in Journal!ChatRows
  BY <1>4, <1>5 DEF Journal!ChatRows, row
<1> QED BY <1>3, <1>6 DEF row, new

\* Deleting a chat keeps the invariant: forks of it forget it, its outcomes go with it.
LEMMA WithoutKeeps ==
  ASSUME JournalInv, NEW gone, journal_chat' = Journal!Without(gone), journal_job' = None,
         journal_outcomes' = journal_outcomes
           \/ journal_outcomes' = {o \in journal_outcomes : o[2] # gone},
         \A c \in Journal!Existing \ {gone} : ~Journal!Copying(c),
         UNCHANGED <<journal_default, journal_phase>>
  PROVE  JournalInv'
<1>1. JournalTypes'
  <2>1. journal_chat' = [c \in JournalChats |-> journal_chat'[c]]
    BY DEF Journal!Without
  <2>2. \A c \in JournalChats : journal_chat'[c] \in Journal!ChatRows \cup {None}
    BY WithoutIs DEF JournalInv, Journal!Existing
  <2> QED BY <2>1, <2>2 DEF JournalInv, JournalTypes
<1>2. \A c \in Journal!Existing' :
        /\ c \in Journal!Existing /\ c # gone
        /\ journal_chat'[c] \in Journal!ChatRows
        /\ journal_chat'[c].events = journal_chat[c].events
        /\ journal_chat'[c].entries = journal_chat[c].entries
        /\ journal_chat'[c].checkpoints = journal_chat[c].checkpoints
        /\ journal_chat'[c].from # None =>
             journal_chat'[c].from = journal_chat[c].from /\ journal_chat[c].from.chat # gone
  BY WithoutIs DEF JournalInv
<1>3. RowsOK'
  BY <1>2, SameProjection DEF JournalInv, RowsOK
<1>4. SettledOK'
  <2>1. \A c \in Journal!Existing' : \A n \in DOMAIN journal_chat'[c].events :
          Settles(c, n)' => <<journal_chat'[c].events[n].text, c>> \in journal_outcomes'
    BY <1>2 DEF JournalInv, SettledOK, Settles
  <2>2. \A c \in Journal!Existing' : \A n, m \in DOMAIN journal_chat'[c].events :
          /\ Settles(c, n)' /\ Settles(c, m)'
          /\ journal_chat'[c].events[n].text = journal_chat'[c].events[m].text
          => n = m
    <3> SUFFICES ASSUME NEW c \in Journal!Existing',
                        NEW n \in DOMAIN journal_chat'[c].events,
                        NEW m \in DOMAIN journal_chat'[c].events,
                        Settles(c, n)', Settles(c, m)',
                        journal_chat'[c].events[n].text = journal_chat'[c].events[m].text
                 PROVE  n = m
      OBVIOUS
    <3>1. c \in Journal!Existing /\ journal_chat'[c].events = journal_chat[c].events
      BY <1>2
    <3>2. Settles(c, n) /\ Settles(c, m)
      BY <3>1 DEF Settles
    <3> QED BY <3>1, <3>2 DEF JournalInv, SettledOK
  <2>3. journal_outcomes' \subseteq journal_outcomes
    OBVIOUS
  <2>4. \A o, p \in journal_outcomes' : o[1] = p[1] => o = p
    BY <2>3 DEF JournalInv, SettledOK
  <2> QED BY <2>1, <2>2, <2>4 DEF SettledOK
<1>5. JobOK' /\ \A c : ~Journal!Copying(c)'
  BY DEF JobOK, Journal!Copying
<1>6. Journal!ImportsAreClean'
  BY <1>5 DEF Journal!ImportsAreClean
<1>7. ASSUME NEW c \in Journal!Existing', journal_chat'[c].from # None
      PROVE  /\ journal_chat'[c].from = journal_chat[c].from
             /\ journal_chat[c].from.chat \in Journal!Existing'
             /\ journal_chat'[journal_chat[c].from.chat].checkpoints =
                  journal_chat[journal_chat[c].from.chat].checkpoints
  <2>1. journal_chat'[c].from = journal_chat[c].from /\ journal_chat[c].from.chat # gone
        /\ c \in Journal!Existing
    BY <1>2, <1>7
  <2>2. journal_chat[c].from.chat \in Journal!Existing
    BY <2>1, <1>7 DEF JournalInv, SourcesOK
  <2>3. journal_chat[c].from.chat \in Journal!Existing'
    <3> DEFINE s == journal_chat[c].from.chat
    <3>1. s \in JournalChats /\ journal_chat[s] # None /\ s # gone /\ journal_chat[s] \in Journal!ChatRows
      BY <2>1, <2>2, ChatIs DEF JournalInv
    <3> HIDE DEF s
    <3>2. journal_chat'[s] = [journal_chat[s] EXCEPT
                !.parent = IF @ = gone THEN None ELSE @,
                !.from = IF @ # None /\ @.chat = gone THEN None ELSE @]
      BY <3>1 DEF Journal!Without
    <3>3. journal_chat'[s] \in Journal!ChatRows
      BY <3>1, <3>2 DEF Journal!ChatRows
    <3> QED BY <3>1, <3>3, JournalAssumption DEF Journal!Existing, s
  <2> QED BY <2>1, <2>3, <1>2
<1>8. SourcesOK'
  BY <1>2, <1>7 DEF JournalInv, SourcesOK
<1>9. Journal!ForksStartAtCheckpoint'
  <2> SUFFICES ASSUME NEW c \in Journal!Existing', journal_chat'[c].from # None,
                      NEW cp \in journal_chat'[journal_chat'[c].from.chat].checkpoints,
                      cp.src = journal_chat'[c].from.src
               PROVE  CopiedAsFar(c, cp)'
    BY <1>5 DEF Journal!ForksStartAtCheckpoint, CopiedAsFar
  <2>1. c \in Journal!Existing /\ journal_chat[c].from # None
        /\ cp \in journal_chat[journal_chat[c].from.chat].checkpoints
        /\ cp.src = journal_chat[c].from.src
        /\ journal_chat'[c].events = journal_chat[c].events
    BY <1>2, <1>7
  <2>2. CopiedAsFar(c, cp)
    BY <2>1, CutShort
  <2> QED BY <2>1, <2>2 DEF CopiedAsFar
<1> QED BY <1>1, <1>3, <1>4, <1>5, <1>6, <1>8, <1>9 DEF JournalInv

\* An event goes into the journal of one chat; every other chat stays as it is.
LEMMA AppendIs ==
  ASSUME JournalInv, journal_phase = "open", NEW c0 \in Journal!Existing,
         NEW e \in Journal!Events,
         journal_chat' = [journal_chat EXCEPT ![c0] = Journal!Appended(@, e)]
  PROVE  /\ journal_chat' \in [JournalChats -> Journal!ChatRows \cup {None}]
         /\ Journal!Existing' = Journal!Existing
         /\ Lengthens(journal_chat[c0], journal_chat'[c0], e)
         /\ \A c \in Journal!Existing : c # c0 => journal_chat'[c] = journal_chat[c]
         /\ \A c \in Journal!Existing : Keeps(journal_chat[c], journal_chat'[c])
<1>1. /\ c0 \in JournalChats /\ journal_chat[c0] \in Journal!ChatRows /\ journal_chat[c0] # None
      /\ journal_chat \in [JournalChats -> Journal!ChatRows \cup {None}]
  BY ChatIs DEF JournalInv, JournalTypes
<1>2. Journal!Projected(journal_chat[c0], Len(journal_chat[c0].events))
  BY DEF JournalInv, RowsOK
<1>3. Lengthens(journal_chat[c0], Journal!Appended(journal_chat[c0], e), e)
  BY <1>1, <1>2, Appending
<1>4. journal_chat'[c0] = Journal!Appended(journal_chat[c0], e)
      /\ \A c \in JournalChats : c # c0 => journal_chat'[c] = journal_chat[c]
  BY <1>1
<1>5. Lengthens(journal_chat[c0], journal_chat'[c0], e)
  BY <1>3, <1>4
<1>6. journal_chat'[c0] \in Journal!ChatRows /\ journal_chat'[c0] # None
  BY <1>5, JournalAssumption DEF Lengthens
<1>7. journal_chat' \in [JournalChats -> Journal!ChatRows \cup {None}]
  BY <1>1, <1>4, <1>6
<1>8. Journal!Existing' = Journal!Existing
  BY <1>1, <1>4, <1>6 DEF Journal!Existing
<1>9. ASSUME NEW c \in Journal!Existing PROVE Keeps(journal_chat[c], journal_chat'[c])
  <2>1. CASE c = c0
    <3>1. Len(journal_chat'[c0].events) \in Nat
      BY <1>6, RowIs
    <3> QED BY <2>1, <3>1, <1>5 DEF Keeps, Lengthens
  <2>2. CASE c # c0
    <3>1. c \in JournalChats /\ journal_chat[c] \in Journal!ChatRows
      BY ChatIs DEF JournalInv
    <3> QED BY <2>2, <3>1, <1>4 DEF Keeps
  <2> QED BY <2>1, <2>2
<1> QED BY <1>4, <1>5, <1>7, <1>8, <1>9 DEF Journal!Existing

\* What brings an event: a turn, or the job that copies or journals a settlement.
Brings(c0, e) ==
  \/ journal_job = None /\ journal_job' = None /\ e.turn /\ e.type # "settlement"
  \/ /\ journal_job # None /\ c0 = journal_job.chat /\ e = Head(journal_job.todo)
     /\ journal_job' = IF Len(journal_job.todo) = 1 THEN None
                       ELSE [journal_job EXCEPT !.todo = Tail(@), !.born = TRUE]

\* A job that goes on has what is left of the same copy.
LEMMA JobGoesOn ==
  ASSUME JournalInv, NEW c0 \in Journal!Existing, NEW e \in Journal!Events, Brings(c0, e),
         journal_job' # None
  PROVE  /\ Journal!Copying(c0) /\ e = Head(journal_job.todo)
         /\ journal_job' \in Journal!Jobs /\ journal_job'.chat = c0
         /\ journal_job'.todo = Tail(journal_job.todo) /\ journal_job'.todo # <<>>
         /\ \A k \in DOMAIN journal_job'.todo :
              /\ ~journal_job'.todo[k].turn /\ k + 1 \in DOMAIN journal_job.todo
              /\ journal_job'.todo[k] = journal_job.todo[k + 1]
         /\ Head(journal_job'.todo).type # "settlement"
<1>1. /\ journal_job # None /\ c0 = journal_job.chat /\ e = Head(journal_job.todo)
      /\ journal_job' = [journal_job EXCEPT !.todo = Tail(@), !.born = TRUE]
      /\ Len(journal_job.todo) # 1
  BY DEF Brings
<1>2. /\ journal_job \in Journal!Jobs /\ journal_job.todo \in Seq(Journal!Events)
      /\ DOMAIN journal_job.todo = 1 .. Len(journal_job.todo) /\ journal_job.todo # <<>>
      /\ Head(journal_job.todo).type # "settlement"
      /\ \A k \in DOMAIN journal_job.todo : ~journal_job.todo[k].turn
  BY <1>1, JobIs DEF JournalInv, JobOK
<1> DEFINE todo == journal_job.todo
           left == Tail(todo)
<1>3. /\ left \in Seq(Journal!Events) /\ Len(left) = Len(todo) - 1 /\ Len(todo) \in Nat \ {0, 1}
      /\ \A k \in 1 .. Len(left) : left[k] = todo[k + 1]
      /\ DOMAIN left = 1 .. Len(left)
  BY <1>1, <1>2, HeadTailProperties, LenProperties, EmptySeq
<1>4. /\ journal_job' \in Journal!Jobs /\ journal_job'.chat = c0 /\ journal_job'.todo = left
  BY <1>1, <1>2, <1>3 DEF Journal!Jobs
<1>5. left # <<>> /\ 1 \in DOMAIN left
  <2> HIDE DEF left, todo
  <2>1. Len(left) # 0 /\ 1 \in 1 .. Len(left)
    BY <1>3
  <2> QED BY <2>1, <1>3, EmptySeq
<1>6. \A k \in DOMAIN left : ~left[k].turn /\ k + 1 \in DOMAIN todo /\ left[k] = todo[k + 1]
  BY <1>2, <1>3
<1>7. Head(left).type # "settlement"
  <2>1. Head(left) = left[1] /\ left[1] \in Journal!Events /\ ~left[1].turn
    BY <1>3, <1>5, <1>6, ElementOfSeq
  <2> QED BY <2>1 DEF Journal!Events
<1> QED BY <1>1, <1>2, <1>4, <1>5, <1>6, <1>7 DEF Journal!Copying

\* A settlement is journaled by the one job that recorded it.
LEMMA AppendSettled ==
  ASSUME JournalInv, journal_phase = "open", NEW c0 \in Journal!Existing,
         NEW e \in Journal!Events, Brings(c0, e), UNCHANGED journal_outcomes,
         journal_chat' = [journal_chat EXCEPT ![c0] = Journal!Appended(@, e)]
  PROVE  SettledOK'
<1>1. /\ Journal!Existing' = Journal!Existing
      /\ Lengthens(journal_chat[c0], journal_chat'[c0], e)
      /\ \A c \in Journal!Existing : c # c0 => journal_chat'[c] = journal_chat[c]
  BY AppendIs
<1> DEFINE es == journal_chat[c0].events
           new == journal_chat'[c0].events
<1>2. es \in Seq(Journal!Events) /\ Len(es) \in Nat /\ DOMAIN es = 1 .. Len(es)
  BY ChatIs DEF JournalInv
<1>3. /\ DOMAIN new = 1 .. Len(es) + 1 /\ new[Len(es) + 1] = e
      /\ \A n \in 1 .. Len(es) : new[n] = es[n]
  BY <1>1, <1>2, AppendProperties, LenProperties DEF Lengthens
<1>4. ASSUME e.type = "settlement"
      PROVE  /\ <<e.text, c0>> \in journal_outcomes
             /\ \A n \in DOMAIN es : es[n].type = "settlement" => es[n].text # e.text
  BY <1>4 DEF Brings, JournalInv, JobOK, Settles
<1>5. \A n \in DOMAIN es : es[n].type = "settlement" => <<es[n].text, c0>> \in journal_outcomes
  BY DEF JournalInv, SettledOK, Settles
<1>6. \A n, m \in DOMAIN es :
        es[n].type = "settlement" /\ es[m].type = "settlement" /\ es[n].text = es[m].text => n = m
  BY DEF JournalInv, SettledOK, Settles
<1> HIDE DEF es, new
<1>7. \A n \in DOMAIN new : new[n].type = "settlement" => <<new[n].text, c0>> \in journal_outcomes
  <2> SUFFICES ASSUME NEW n \in 1 .. Len(es) + 1, new[n].type = "settlement"
               PROVE  <<new[n].text, c0>> \in journal_outcomes
    BY <1>3
  <2>1. CASE n \in 1 .. Len(es)
    BY <2>1, <1>2, <1>3, <1>5
  <2>2. CASE n = Len(es) + 1
    BY <2>2, <1>3, <1>4
  <2> QED BY <2>1, <2>2, <1>2
<1>8. \A n, m \in DOMAIN new :
        new[n].type = "settlement" /\ new[m].type = "settlement" /\ new[n].text = new[m].text => n = m
  <2> SUFFICES ASSUME NEW n \in 1 .. Len(es) + 1, NEW m \in 1 .. Len(es) + 1,
                      new[n].type = "settlement", new[m].type = "settlement",
                      new[n].text = new[m].text
               PROVE  n = m
    BY <1>3
  <2>1. CASE n \in 1 .. Len(es) /\ m \in 1 .. Len(es)
    BY <2>1, <1>2, <1>3, <1>6
  <2>2. CASE n \in 1 .. Len(es) /\ m = Len(es) + 1
    BY <2>2, <1>2, <1>3, <1>4
  <2>3. CASE n = Len(es) + 1 /\ m \in 1 .. Len(es)
    BY <2>3, <1>2, <1>3, <1>4
  <2>4. CASE n = Len(es) + 1 /\ m = Len(es) + 1
    BY <2>4
  <2> QED BY <2>1, <2>2, <2>3, <2>4, <1>2
<1>9. ASSUME NEW c \in Journal!Existing', NEW n \in DOMAIN journal_chat'[c].events, Settles(c, n)'
      PROVE  /\ <<journal_chat'[c].events[n].text, c>> \in journal_outcomes
             /\ \A m \in DOMAIN journal_chat'[c].events :
                  Settles(c, m)' /\ journal_chat'[c].events[n].text = journal_chat'[c].events[m].text
                  => n = m
  <2>1. CASE c = c0
    BY <2>1, <1>7, <1>8, <1>9 DEF Settles, new
  <2>2. CASE c # c0
    <3>1. c \in Journal!Existing /\ journal_chat'[c] = journal_chat[c]
      BY <2>2, <1>1
    <3> QED BY <3>1, <1>9 DEF JournalInv, SettledOK, Settles
  <2> QED BY <2>1, <2>2
<1>10. \A o, p \in journal_outcomes' : o[1] = p[1] => o = p
  BY DEF JournalInv, SettledOK
<1> QED BY <1>9, <1>10 DEF SettledOK

\* A fork gets the next event of its copy, or events of its own turns after it.
LEMMA AppendForks ==
  ASSUME JournalInv, journal_phase = "open", NEW c0 \in Journal!Existing,
         NEW e \in Journal!Events, Brings(c0, e),
         journal_chat' = [journal_chat EXCEPT ![c0] = Journal!Appended(@, e)], JournalTypes'
  PROVE  SourcesOK' /\ Journal!ForksStartAtCheckpoint'
<1>1. /\ Journal!Existing' = Journal!Existing
      /\ Lengthens(journal_chat[c0], journal_chat'[c0], e)
      /\ \A c \in Journal!Existing : c # c0 => journal_chat'[c] = journal_chat[c]
      /\ \A c \in Journal!Existing : Keeps(journal_chat[c], journal_chat'[c])
  BY AppendIs
<1>2. \A c \in Journal!Existing : journal_chat'[c].from = journal_chat[c].from
  BY <1>1 DEF Lengthens
<1>3. ASSUME NEW c \in Journal!Existing, journal_chat[c].from # None
      PROVE  /\ journal_chat[c].from.chat \in Journal!Existing
             /\ \E cp \in journal_chat'[journal_chat[c].from.chat].checkpoints :
                  cp.src = journal_chat[c].from.src
             /\ \A cp \in journal_chat'[journal_chat[c].from.chat].checkpoints :
                  cp.src = journal_chat[c].from.src =>
                    cp \in journal_chat[journal_chat[c].from.chat].checkpoints
  <2>1. journal_chat[c].from.chat \in Journal!Existing
    BY <1>3 DEF JournalInv, SourcesOK
  <2> QED BY <1>1, <1>3, <2>1, SourceStays
<1>4. SourcesOK'
  BY <1>1, <1>2, <1>3 DEF SourcesOK
<1>5. ASSUME NEW c \in Journal!Existing, journal_chat[c].from # None,
             NEW cp \in journal_chat'[journal_chat[c].from.chat].checkpoints,
             cp.src = journal_chat[c].from.src
      PROVE  IF Journal!Copying(c)'
             THEN journal_chat'[c].events \o journal_job'.todo
                    = Journal!Written(Journal!Context(cp.digest))
             ELSE CopiedAsFar(c, cp)'
  <2> DEFINE es == journal_chat[c].events
             whole == Journal!Written(Journal!Context(cp.digest))
  <2>1. cp \in journal_chat[journal_chat[c].from.chat].checkpoints /\ CopiedAsFar(c, cp)
    BY <1>3, <1>5, CutShort
  <2>2. Journal!Copying(c) => es \o journal_job.todo = whole
    BY <1>5, <2>1 DEF JournalInv, Journal!ForksStartAtCheckpoint
  <2>3. es \in Seq(Journal!Events) /\ Len(es) \in Nat
    BY ChatIs DEF JournalInv
  <2>4. CASE c # c0
    <3>1. ~Journal!Copying(c)'
      BY <2>4, JobGoesOn DEF Journal!Copying
    <3>2. journal_chat'[c].events = journal_chat[c].events
      BY <2>4, <1>1
    <3> QED BY <3>1, <3>2, <2>1 DEF CopiedAsFar
  <2>5. CASE c = c0 /\ journal_job' # None
    <3>1. /\ Journal!Copying(c) /\ e = Head(journal_job.todo)
          /\ journal_job'.todo = Tail(journal_job.todo) /\ journal_job.todo # <<>>
          /\ journal_job'.chat = c /\ Head(journal_job'.todo).type # "settlement"
      BY <2>5, JobGoesOn DEF JournalInv, JobOK, Journal!Copying
    <3>2. journal_job.todo \in Seq(Journal!Events) /\ Journal!Copying(c)'
      BY <2>5, <3>1, JobIs DEF JournalInv, Journal!Copying
    <3>3. journal_chat'[c].events = Append(es, e)
      BY <2>5, <1>1 DEF Lengthens
    <3>4. journal_chat'[c].events \o journal_job'.todo = whole
      <4>1. Append(es, Head(journal_job.todo)) \o Tail(journal_job.todo) = es \o journal_job.todo
        BY <3>1, <3>2, <2>3, MovesOver
      <4> QED BY <4>1, <3>1, <3>3, <2>2
    <3> QED BY <3>2, <3>4
  <2>6. CASE c = c0 /\ journal_job' = None /\ e.turn
    <3>1. ~Journal!Copying(c)'
      BY <2>6 DEF Journal!Copying
    <3>2. journal_chat'[c].events = Append(es, e)
      BY <2>6, <1>1 DEF Lengthens
    <3>3. PICK n \in 0 .. Len(es) :
            Journal!IsPrefix(SubSeq(es, 1, n), whole) /\ \A m \in n + 1 .. Len(es) : es[m].turn
      BY <2>1 DEF CopiedAsFar
    <3>4. /\ Len(Append(es, e)) = Len(es) + 1 /\ Append(es, e)[Len(es) + 1] = e
          /\ \A m \in 1 .. Len(es) : Append(es, e)[m] = es[m]
          /\ SubSeq(Append(es, e), 1, n) = SubSeq(es, 1, n)
      BY <2>3, AppendProperties, AppendKeepsStart
    <3> HIDE DEF es, whole
    <3>5. n \in 0 .. Len(es) + 1 /\ \A m \in n + 1 .. Len(es) + 1 : Append(es, e)[m].turn
      <4> SUFFICES ASSUME NEW m \in n + 1 .. Len(es) + 1 PROVE Append(es, e)[m].turn
        BY <2>3
      <4>1. CASE m = Len(es) + 1
        BY <4>1, <3>4, <2>6
      <4>2. CASE m # Len(es) + 1
        <5>1. m \in n + 1 .. Len(es) /\ m \in 1 .. Len(es)
          BY <4>2, <2>3
        <5> QED BY <5>1, <3>3, <3>4
      <4> QED BY <4>1, <4>2
    <3>6. \E k \in 0 .. Len(Append(es, e)) :
            /\ Journal!IsPrefix(SubSeq(Append(es, e), 1, k), whole)
            /\ \A m \in k + 1 .. Len(Append(es, e)) : Append(es, e)[m].turn
      BY <3>3, <3>4, <3>5
    <3> QED BY <3>1, <3>2, <3>6 DEF CopiedAsFar, whole
  <2>7. CASE c = c0 /\ journal_job' = None /\ ~e.turn
    <3>1. /\ journal_job # None /\ c = journal_job.chat /\ e = Head(journal_job.todo)
          /\ Len(journal_job.todo) = 1
      <4>1. journal_job # None /\ c = journal_job.chat /\ e = Head(journal_job.todo)
        BY <2>7 DEF Brings
      <4>2. CASE Len(journal_job.todo) # 1
        <5>1. journal_job' = [journal_job EXCEPT !.todo = Tail(@), !.born = TRUE]
          BY <2>7, <4>1, <4>2 DEF Brings
        <5>2. /\ journal_job \in Journal!Jobs /\ journal_job.todo \in Seq(Journal!Events)
              /\ journal_job.todo # <<>>
          BY <4>1, JobIs DEF JournalInv, JobOK
        <5>3. Tail(journal_job.todo) \in Seq(Journal!Events)
          BY <5>2, HeadTailProperties
        <5>4. journal_job' \in Journal!Jobs
          BY <5>1, <5>2, <5>3 DEF Journal!Jobs
        <5> QED BY <5>4, <2>7, JournalAssumption
      <4> QED BY <4>1, <4>2
    <3>2. e.type # "settlement"
      BY <2>7 DEF Journal!Events
    <3>3. /\ journal_job.todo \in Seq(Journal!Events) /\ journal_job.todo # <<>>
          /\ Journal!Copying(c)
      BY <3>1, <3>2, JobIs, EmptySeq DEF JournalInv, Journal!Copying
    <3>4. Tail(journal_job.todo) = <<>>
      <4>1. Tail(journal_job.todo) \in Seq(Journal!Events) /\ Len(Tail(journal_job.todo)) = 0
        BY <3>1, <3>3, HeadTailProperties
      <4> QED BY <4>1, EmptySeq
    <3>5. Append(es, e) \o <<>> = whole /\ Append(es, e) \in Seq(Journal!Events)
      <4>1. Append(es, Head(journal_job.todo)) \o Tail(journal_job.todo) = es \o journal_job.todo
        BY <3>3, <2>3, MovesOver
      <4>2. Append(es, e) \in Seq(Journal!Events)
        BY <2>3, AppendProperties
      <4> QED BY <4>1, <4>2, <3>1, <3>3, <3>4, <2>2
    <3>6. Append(es, e) = whole
      BY <3>5, ConcatEmptySeq
    <3>7. /\ journal_chat'[c].events = whole /\ whole \in Seq(Journal!Events)
          /\ ~Journal!Copying(c)'
      BY <2>7, <3>5, <3>6, <1>1 DEF Lengthens, Journal!Copying
    <3> HIDE DEF whole
    <3>8. /\ Len(whole) \in 0 .. Len(whole) /\ SubSeq(whole, 1, Len(whole)) = whole
          /\ Journal!IsPrefix(whole, whole) /\ Len(whole) + 1 .. Len(whole) = {}
      <4>1. Len(whole) \in Nat
        BY <3>7, LenProperties
      <4> QED BY <3>7, <4>1, SubSeqFull, PrefixItself
    <3>9. \E k \in 0 .. Len(whole) :
            /\ Journal!IsPrefix(SubSeq(whole, 1, k), whole)
            /\ \A m \in k + 1 .. Len(whole) : whole[m].turn
      BY <3>8
    <3>10. CopiedAsFar(c, cp)'
      BY <3>7, <3>9 DEF CopiedAsFar, whole
    <3> QED BY <3>7, <3>10
  <2> QED BY <2>4, <2>5, <2>6, <2>7
<1>6. Journal!ForksStartAtCheckpoint'
  <2> SUFFICES ASSUME NEW c \in Journal!Existing', journal_chat'[c].from # None,
                      NEW cp \in journal_chat'[journal_chat'[c].from.chat].checkpoints,
                      cp.src = journal_chat'[c].from.src
               PROVE  IF Journal!Copying(c)'
                      THEN journal_chat'[c].events \o journal_job'.todo
                             = Journal!Written(Journal!Context(cp.digest))
                      ELSE CopiedAsFar(c, cp)'
    BY DEF Journal!ForksStartAtCheckpoint, CopiedAsFar
  <2>1. c \in Journal!Existing /\ journal_chat'[c].from = journal_chat[c].from
    BY <1>1, <1>2
  <2> QED BY <2>1, <1>5
<1> QED BY <1>4, <1>6

\* An event of a turn, or of a job, keeps the invariant.
LEMMA AppendKeeps ==
  ASSUME JournalInv, journal_phase = "open", NEW c0 \in Journal!Existing,
         NEW e \in Journal!Events, Brings(c0, e),
         journal_chat' = [journal_chat EXCEPT ![c0] = Journal!Appended(@, e)],
         UNCHANGED <<journal_outcomes, journal_default, journal_phase>>
  PROVE  JournalInv'
<1>1. /\ journal_chat' \in [JournalChats -> Journal!ChatRows \cup {None}]
      /\ Journal!Existing' = Journal!Existing
      /\ Lengthens(journal_chat[c0], journal_chat'[c0], e)
      /\ \A c \in Journal!Existing : c # c0 => journal_chat'[c] = journal_chat[c]
  BY AppendIs
<1>2. JournalTypes'
  BY <1>1, JobGoesOn DEF JournalInv, JournalTypes
<1>3. RowsOK'
  BY <1>1 DEF JournalInv, RowsOK, Lengthens
<1>4. SettledOK' /\ SourcesOK' /\ Journal!ForksStartAtCheckpoint'
  BY <1>2, AppendSettled, AppendForks
<1>5. JobOK'
  <2> SUFFICES ASSUME journal_job' # None PROVE JobOK'
    BY DEF JobOK
  <2>1. /\ journal_job'.chat = c0 /\ journal_job'.todo # <<>>
        /\ Head(journal_job'.todo).type # "settlement"
        /\ \A k \in DOMAIN journal_job'.todo : ~journal_job'.todo[k].turn
    BY JobGoesOn
  <2>2. journal_chat'[c0] # None /\ journal_phase' = "open"
    BY <1>1 DEF Journal!Existing
  <2> QED BY <2>1, <2>2 DEF JobOK
<1>6. Journal!ImportsAreClean'
  <2> SUFFICES ASSUME NEW c \in Journal!Existing', Journal!Copying(c)', journal_chat'[c].from = None,
                      NEW x \in Journal!ToSet(journal_chat'[c].events) \cup Journal!ToSet(journal_job'.todo)
               PROVE  x.text \in {"plain", "redacted"}
    BY DEF Journal!ImportsAreClean
  <2>1. /\ c = c0 /\ Journal!Copying(c0) /\ e = Head(journal_job.todo)
        /\ \A k \in DOMAIN journal_job'.todo :
             k + 1 \in DOMAIN journal_job.todo /\ journal_job'.todo[k] = journal_job.todo[k + 1]
    BY JobGoesOn DEF Journal!Copying
  <2>2. /\ journal_chat[c0].from = None /\ journal_chat'[c0].events = Append(journal_chat[c0].events, e)
        /\ journal_job # None
    BY <2>1, <1>1 DEF Lengthens, Journal!Copying
  <2> DEFINE es == journal_chat[c0].events
             old == Journal!ToSet(es) \cup Journal!ToSet(journal_job.todo)
  <2>3. \A y \in old : y.text \in {"plain", "redacted"}
    BY <2>1, <2>2 DEF JournalInv, Journal!ImportsAreClean
  <2>4. /\ es \in Seq(Journal!Events) /\ DOMAIN es = 1 .. Len(es) /\ Len(es) \in Nat
        /\ journal_job.todo \in Seq(Journal!Events) /\ journal_job.todo # <<>>
        /\ DOMAIN journal_job.todo = 1 .. Len(journal_job.todo)
    BY <2>2, ChatIs, JobIs DEF JournalInv, JobOK
  <2>5. e \in old
    <3>1. 1 \in DOMAIN journal_job.todo /\ e = journal_job.todo[1]
      BY <2>1, <2>4, EmptySeq
    <3> QED BY <3>1 DEF Journal!ToSet
  <2>6. x \in old
    <3>1. CASE x \in Journal!ToSet(journal_job'.todo)
      BY <3>1, <2>1 DEF Journal!ToSet
    <3>2. CASE x \in Journal!ToSet(Append(es, e))
      <4>1. PICK n \in DOMAIN Append(es, e) : x = Append(es, e)[n]
        BY <3>2 DEF Journal!ToSet
      <4>2. /\ DOMAIN Append(es, e) = 1 .. Len(es) + 1 /\ Append(es, e)[Len(es) + 1] = e
            /\ \A i \in 1 .. Len(es) : Append(es, e)[i] = es[i]
        BY <2>4, AppendProperties, LenProperties
      <4>3. n \in 1 .. Len(es) \/ n = Len(es) + 1
        BY <4>1, <4>2, <2>4
      <4>4. CASE n = Len(es) + 1
        BY <4>1, <4>2, <4>4, <2>5
      <4>5. CASE n \in 1 .. Len(es)
        <5>1. x = es[n] /\ n \in DOMAIN es
          BY <4>1, <4>2, <4>5, <2>4
        <5> QED BY <5>1 DEF Journal!ToSet
      <4> QED BY <4>3, <4>4, <4>5
    <3> QED BY <3>1, <3>2, <2>1, <2>2
  <2> QED BY <2>3, <2>6
<1> QED BY <1>2, <1>3, <1>4, <1>5, <1>6 DEF JournalInv

\* A chat that did not exist begins, empty, and its job is to write what it is given.
Begins(c0, policy, parent, from, todo) ==
  /\ c0 \in JournalChats /\ journal_chat[c0] = None
  /\ policy \in Journal!Policies /\ parent \in JournalChats \cup {None}
  /\ from \in Journal!Origins \cup {None}
  /\ todo \in Seq(Journal!Events) /\ todo # <<>>
  /\ \A k \in DOMAIN todo : ~todo[k].turn
  /\ journal_chat' = [journal_chat EXCEPT ![c0] = Journal!NewChat(policy, parent, from)]
  /\ journal_job' = [chat |-> c0, todo |-> todo, born |-> FALSE]

\* A chat that is created, imported or forked keeps the invariant.
LEMMA BeginsKeeps ==
  ASSUME JournalInv, journal_phase = "open", journal_job = None,
         NEW c0, NEW policy, NEW parent, NEW from, NEW todo, Begins(c0, policy, parent, from, todo),
         from = None => \A k \in DOMAIN todo : todo[k].text \in {"plain", "redacted"},
         from # None =>
           /\ from.chat \in Journal!Existing
           /\ \E cp \in journal_chat[from.chat].checkpoints :
                cp.src = from.src /\ todo = Journal!Written(Journal!Context(cp.digest)),
         UNCHANGED <<journal_outcomes, journal_default, journal_phase>>
  PROVE  JournalInv'
<1> DEFINE new == Journal!NewChat(policy, parent, from)
<1>1. /\ new \in Journal!ChatRows /\ new.from = from /\ new.events = <<>>
      /\ new.entries = <<>> /\ new.checkpoints = {}
  BY DEF Begins, Journal!NewChat, Journal!ChatRows
<1> HIDE DEF new
<1>2. new # None
  BY <1>1, JournalAssumption
<1>3. /\ journal_chat \in [JournalChats -> Journal!ChatRows \cup {None}]
      /\ c0 \in JournalChats /\ journal_chat[c0] = None
      /\ journal_chat' = [journal_chat EXCEPT ![c0] = new]
  BY DEF JournalInv, JournalTypes, Begins, new
<1>4. /\ journal_chat'[c0] = new
      /\ \A c \in JournalChats : c # c0 => journal_chat'[c] = journal_chat[c]
      /\ journal_chat' \in [JournalChats -> Journal!ChatRows \cup {None}]
  BY <1>1, <1>3
<1>5. /\ c0 \notin Journal!Existing /\ Journal!Existing' = Journal!Existing \cup {c0}
      /\ \A c \in Journal!Existing : journal_chat'[c] = journal_chat[c]
  BY <1>2, <1>3, <1>4 DEF Journal!Existing
<1>6. /\ todo \in Seq(Journal!Events) /\ Len(todo) \in Nat /\ DOMAIN todo = 1 .. Len(todo)
      /\ todo # <<>> /\ 1 \in DOMAIN todo /\ Head(todo) = todo[1]
  BY LenProperties, EmptySeq DEF Begins
<1>7. Head(todo).type # "settlement"
  <2>1. todo[1] \in Journal!Events /\ ~todo[1].turn
    BY <1>6, ElementOfSeq DEF Begins
  <2> QED BY <2>1, <1>6 DEF Journal!Events
<1>8. /\ journal_job' \in Journal!Jobs /\ journal_job' # None
      /\ journal_job'.chat = c0 /\ journal_job'.todo = todo
  <2>1. journal_job' \in Journal!Jobs /\ journal_job'.chat = c0 /\ journal_job'.todo = todo
    BY <1>6 DEF Begins, Journal!Jobs
  <2> QED BY <2>1, JournalAssumption
<1>9. \A c : /\ ~Journal!Copying(c)
             /\ Journal!Copying(c)' <=> c = c0
  BY <1>7, <1>8 DEF Journal!Copying
<1>10. JournalTypes'
  BY <1>4, <1>8 DEF JournalInv, JournalTypes
<1>11. RowsOK'
  <2>1. Len(new.events) = 0 /\ DOMAIN new.entries = {}
    BY <1>1
  <2>2. Journal!Projected(new, 0)
    BY <1>1, <2>1 DEF Journal!Projected
  <2> QED BY <2>1, <2>2, <1>4, <1>5 DEF JournalInv, RowsOK
<1>12. SettledOK'
  <2>1. DOMAIN journal_chat'[c0].events = {}
    BY <1>1, <1>4
  <2> QED BY <2>1, <1>5 DEF JournalInv, SettledOK, Settles
<1>13. JobOK'
  BY <1>2, <1>4, <1>6, <1>7, <1>8 DEF JobOK, Begins
<1>14. Journal!ImportsAreClean'
  <2> SUFFICES ASSUME from = None,
                      NEW x \in Journal!ToSet(new.events) \cup Journal!ToSet(todo)
               PROVE  x.text \in {"plain", "redacted"}
    BY <1>1, <1>4, <1>8, <1>9 DEF Journal!ImportsAreClean
  <2>1. PICK k \in DOMAIN todo : x = todo[k]
    BY <1>1 DEF Journal!ToSet
  <2> QED BY <2>1
<1>15. ASSUME NEW c \in Journal!Existing', journal_chat'[c].from # None
       PROVE  /\ journal_chat'[c].from.chat \in Journal!Existing
              /\ \E cp \in journal_chat[journal_chat'[c].from.chat].checkpoints :
                   cp.src = journal_chat'[c].from.src
              /\ journal_chat'[journal_chat'[c].from.chat] = journal_chat[journal_chat'[c].from.chat]
  <2>1. CASE c = c0
    BY <2>1, <1>1, <1>4, <1>5, <1>15
  <2>2. CASE c # c0
    <3>1. c \in Journal!Existing /\ journal_chat'[c] = journal_chat[c]
      BY <2>2, <1>5
    <3> QED BY <3>1, <1>5, <1>15 DEF JournalInv, SourcesOK
  <2> QED BY <2>1, <2>2
<1>16. SourcesOK'
  BY <1>5, <1>15 DEF SourcesOK
<1>17. ASSUME NEW c \in Journal!Existing', journal_chat'[c].from # None,
              NEW cp \in journal_chat'[journal_chat'[c].from.chat].checkpoints,
              cp.src = journal_chat'[c].from.src
       PROVE  IF Journal!Copying(c)'
              THEN journal_chat'[c].events \o journal_job'.todo
                     = Journal!Written(Journal!Context(cp.digest))
              ELSE CopiedAsFar(c, cp)'
  <2>1. CASE c = c0
    <3>1. /\ from # None /\ from.chat \in Journal!Existing
          /\ cp \in journal_chat[from.chat].checkpoints /\ cp.src = from.src
      BY <2>1, <1>1, <1>4, <1>15, <1>17
    <3>2. PICK old \in journal_chat[from.chat].checkpoints :
            old.src = from.src /\ todo = Journal!Written(Journal!Context(old.digest))
      BY <3>1
    <3>3. /\ journal_chat[from.chat] \in Journal!ChatRows
          /\ Len(journal_chat[from.chat].events) \in Nat
          /\ Journal!Projected(journal_chat[from.chat], Len(journal_chat[from.chat].events))
      BY <3>1, ChatIs DEF JournalInv, RowsOK
    <3>4. cp = old
      BY <3>1, <3>2, <3>3, CheckpointsApart
    <3>5. <<>> \o todo = todo
      BY <1>6, ConcatEmptySeq
    <3> QED BY <2>1, <3>2, <3>4, <3>5, <1>1, <1>4, <1>8, <1>9
  <2>2. CASE c # c0
    <3>1. /\ c \in Journal!Existing /\ journal_chat'[c] = journal_chat[c] /\ ~Journal!Copying(c)'
          /\ cp \in journal_chat[journal_chat[c].from.chat].checkpoints
      BY <2>2, <1>5, <1>9, <1>15, <1>17
    <3>2. CopiedAsFar(c, cp)
      BY <3>1, <1>17, CutShort
    <3> QED BY <3>1, <3>2 DEF CopiedAsFar
  <2> QED BY <2>1, <2>2
<1>18. Journal!ForksStartAtCheckpoint'
  BY <1>17 DEF Journal!ForksStartAtCheckpoint, CopiedAsFar
<1> QED BY <1>10, <1>11, <1>12, <1>13, <1>14, <1>16, <1>18 DEF JournalInv

LEMMA CreateKeeps ==
  ASSUME JournalInv, NEW c0 \in JournalChats, Journal!CreateChat(c0)
  PROVE  JournalInv'
<1> DEFINE todo == <<Journal!Note>>
<1>1. /\ Journal!Note \in Journal!Events /\ ~Journal!Note.turn /\ Journal!Note.text = "plain"
  BY DEF Journal!Note, Journal!Event, Journal!Events, Journal!Types, Journal!Texts
<1>2. /\ todo \in Seq(Journal!Events) /\ todo # <<>>
      /\ \A k \in DOMAIN todo : ~todo[k].turn /\ todo[k].text = "plain"
  BY <1>1
<1> HIDE DEF todo
<1>3. journal_default \in Journal!Policies
  BY DEF JournalInv, JournalTypes, Journal!Policies
<1>4. Begins(c0, journal_default, None, None, todo)
  BY <1>2, <1>3 DEF Journal!CreateChat, Begins, todo
<1>5. journal_phase = "open" /\ journal_job = None
      /\ UNCHANGED <<journal_outcomes, journal_default, journal_phase>>
  BY DEF Journal!CreateChat, Journal!Free
<1> QED BY <1>2, <1>4, <1>5, BeginsKeeps

LEMMA ImportKeeps ==
  ASSUME JournalInv, NEW c0 \in JournalChats, NEW d \in Journal!Documents, Journal!Import(c0, d)
  PROVE  JournalInv'
<1> DEFINE todo == Journal!Written(d)
<1>1. d \in Seq(Said)
  BY DocumentsAreSaid DEF JournalInv
<1>2. /\ todo \in Seq(Journal!Events) /\ todo # <<>>
      /\ \A k \in DOMAIN todo :
           /\ ~todo[k].turn
           /\ todo[k].text = "plain" \/ \E i \in DOMAIN d : todo[k].text = d[i].text
  BY <1>1, WrittenIs
<1>3. \A i \in DOMAIN d : d[i].text \in {"plain", "redacted"}
  <2>1. \A i \in DOMAIN d : d[i].text \in Journal!Texts
    <3>1. \A i \in DOMAIN d : d[i] \in Said
      BY <1>1, ElementOfSeq, LenProperties
    <3> QED BY <3>1 DEF Said
  <2>2. \A i \in DOMAIN d : d[i].text # "sponsored" /\ Journal!Scrub(d[i].text) = d[i].text
    BY DEF Journal!Import
  <2> QED BY <2>1, <2>2 DEF Journal!Scrub, Journal!Texts
<1>4. journal_default \in Journal!Policies
  BY DEF JournalInv, JournalTypes, Journal!Policies
<1>5. Begins(c0, journal_default, None, None, todo)
  BY <1>2, <1>4 DEF Journal!Import, Journal!CopyInto, Begins
<1>6. journal_phase = "open" /\ journal_job = None
      /\ UNCHANGED <<journal_outcomes, journal_default, journal_phase>>
  BY DEF Journal!Import, Journal!CopyInto, Journal!Free
<1> HIDE DEF todo
<1>7. \A k \in DOMAIN todo : todo[k].text \in {"plain", "redacted"}
  BY <1>2, <1>3
<1> QED BY <1>5, <1>6, <1>7, BeginsKeeps

\* A fork begins with the context of its checkpoint: no other has its place.
LEMMA ForkKeeps ==
  ASSUME JournalInv, NEW c0 \in JournalChats, NEW source \in JournalChats,
         NEW cp \in journal_chat[source].checkpoints, Journal!Fork(c0, source, cp)
  PROVE  JournalInv'
<1>1. source \in Journal!Existing /\ journal_chat[source] \in Journal!ChatRows
  BY ChatIs DEF Journal!Fork, Journal!Existing, JournalInv
<1>2. cp \in Journal!Checkpoints /\ journal_chat[source].policy \in Journal!Policies
  BY <1>1, RowIs
<1> DEFINE from == [chat |-> source, src |-> cp.src]
           todo == Journal!Written(Journal!Context(cp.digest))
<1>3. Journal!Context(cp.digest) \in Seq(Said)
  BY <1>2, ContextIs DEF Journal!Checkpoints
<1>4. /\ todo \in Seq(Journal!Events) /\ todo # <<>> /\ \A k \in DOMAIN todo : ~todo[k].turn
  BY <1>3, WrittenIs
<1>5. from \in Journal!Origins /\ from.chat = source /\ from.src = cp.src
  BY <1>2 DEF Journal!Checkpoints, Journal!Origins
<1>6. Begins(c0, journal_chat[source].policy, source, from, todo)
  BY <1>2, <1>4, <1>5 DEF Journal!Fork, Journal!CopyInto, Begins
<1>7. journal_phase = "open" /\ journal_job = None
      /\ UNCHANGED <<journal_outcomes, journal_default, journal_phase>>
  BY DEF Journal!Fork, Journal!CopyInto, Journal!Free
<1>8. from = None => \A k \in DOMAIN todo : todo[k].text \in {"plain", "redacted"}
  BY <1>5, JournalAssumption
<1> HIDE DEF from
<1>9. /\ from.chat \in Journal!Existing
      /\ \E old \in journal_chat[from.chat].checkpoints :
           old.src = from.src /\ todo = Journal!Written(Journal!Context(old.digest))
  BY <1>1, <1>5
<1> HIDE DEF todo
<1> QED BY <1>6, <1>7, <1>8, <1>9, BeginsKeeps DEF todo

\* A settlement that is new is in no journal: those there are belong to others.
LEMMA SettleKeeps ==
  ASSUME JournalInv, NEW c0 \in JournalChats, NEW r \in JournalTurns, Journal!Settle(c0, r)
  PROVE  JournalInv'
<1> DEFINE e == Journal!Event("settlement", r, TRUE)
           todo == <<e>>
<1>1. /\ journal_phase = "open" /\ journal_job = None /\ journal_chat[c0] # None
      /\ \A o \in journal_outcomes : o[1] # r
      /\ journal_outcomes' = journal_outcomes \cup {<<r, c0>>}
      /\ journal_job' = [chat |-> c0, todo |-> todo, born |-> TRUE]
      /\ UNCHANGED <<journal_chat, journal_default, journal_phase>>
  BY DEF Journal!Settle, Journal!Free, Journal!Room
<1>2. e \in Journal!Events /\ e.type = "settlement" /\ e.text = r
  BY DEF Journal!Event, Journal!Events
<1> HIDE DEF e
<1>3. todo \in Seq(Journal!Events) /\ Len(todo) = 1 /\ Head(todo) = e /\ todo # <<>>
  BY <1>2
<1> HIDE DEF todo
<1>4. /\ journal_job' \in Journal!Jobs /\ journal_job'.chat = c0 /\ journal_job'.todo = todo
  BY <1>1, <1>3 DEF Journal!Jobs
<1>5. Journal!Existing' = Journal!Existing
  BY <1>1 DEF Journal!Existing
<1>6. JournalTypes'
  BY <1>1, <1>4 DEF JournalInv, JournalTypes
<1>7. RowsOK' /\ SourcesOK'
  BY <1>1, <1>5 DEF JournalInv, RowsOK, SourcesOK
<1>8. SettledOK'
  <2>1. \A o \in journal_outcomes' : (o \in journal_outcomes /\ o[1] # r) \/ o = <<r, c0>>
    BY <1>1
  <2>2. \A o, p \in journal_outcomes' : o[1] = p[1] => o = p
    BY <2>1 DEF JournalInv, SettledOK
  <2>3. journal_outcomes \subseteq journal_outcomes'
    BY <1>1
  <2> QED BY <2>2, <2>3, <1>1, <1>5 DEF JournalInv, SettledOK, Settles
<1>9. JobOK'
  <2>1. ASSUME NEW c \in Journal!Existing, NEW n \in DOMAIN journal_chat[c].events, Settles(c, n)
        PROVE  journal_chat[c].events[n].text # r
    <3> DEFINE o == <<journal_chat[c].events[n].text, c>>
    <3>1. o \in journal_outcomes
      BY <2>1 DEF JournalInv, SettledOK
    <3>2. o[1] # r
      BY <3>1, <1>1
    <3> QED BY <3>2
  <2>2. <<r, c0>> \in journal_outcomes'
    BY <1>1
  <2> QED BY <2>1, <2>2, <1>1, <1>2, <1>3, <1>4, <1>5 DEF JobOK, Settles
<1>10. \A c : ~Journal!Copying(c)'
  BY <1>2, <1>3, <1>4 DEF Journal!Copying
<1>11. Journal!ImportsAreClean'
  BY <1>10 DEF Journal!ImportsAreClean
<1>12. Journal!ForksStartAtCheckpoint'
  <2> SUFFICES ASSUME NEW c \in Journal!Existing', journal_chat'[c].from # None,
                      NEW cp \in journal_chat'[journal_chat'[c].from.chat].checkpoints,
                      cp.src = journal_chat'[c].from.src
               PROVE  CopiedAsFar(c, cp)'
    BY <1>10 DEF Journal!ForksStartAtCheckpoint, CopiedAsFar
  <2>1. CopiedAsFar(c, cp)
    BY <1>1, <1>5, CutShort
  <2> QED BY <2>1, <1>1 DEF CopiedAsFar
<1> QED BY <1>6, <1>7, <1>8, <1>9, <1>11, <1>12 DEF JournalInv

\* A start goes through every row, which keeps its journal and what context it has.
Fills(row, new) ==
  /\ new \in Journal!ChatRows
  /\ new.from = row.from /\ new.events = row.events
  /\ Journal!IsPrefix(row.entries, new.entries)
  /\ row.checkpoints \subseteq new.checkpoints
  /\ row.policy \in {"missing", new.policy}

\* A start that fills in the rows keeps the invariant.
LEMMA FillKeeps ==
  ASSUME JournalInv, journal_phase # "open",
         journal_chat' = [c \in JournalChats |-> journal_chat'[c]],
         \A c \in JournalChats : journal_chat[c] = None => journal_chat'[c] = None,
         \A c \in Journal!Existing :
           /\ Fills(journal_chat[c], journal_chat'[c])
           /\ \/ Journal!Projected(journal_chat'[c], Len(journal_chat'[c].events))
              \/ /\ journal_phase' # "open" /\ Journal!Projected(journal_chat'[c], 0)
                 /\ journal_chat'[c].checkpoints = journal_chat[c].checkpoints,
         UNCHANGED <<journal_outcomes, journal_default, journal_job>>
  PROVE  JournalInv'
<1>1. \A c \in Journal!Existing :
        /\ journal_chat'[c] \in Journal!ChatRows /\ journal_chat'[c] # None
        /\ journal_chat'[c].from = journal_chat[c].from
        /\ journal_chat'[c].events = journal_chat[c].events
  BY JournalAssumption DEF Fills
<1>2. Journal!Existing' = Journal!Existing
  BY <1>1 DEF Journal!Existing
<1>3. JournalTypes'
  BY <1>1 DEF JournalInv, JournalTypes, Journal!Existing
<1>4. RowsOK'
  BY <1>2 DEF RowsOK
<1>5. SettledOK'
  BY <1>1, <1>2 DEF JournalInv, SettledOK, Settles
<1>6. journal_job' = None /\ \A c : ~Journal!Copying(c)'
  BY DEF JournalInv, JobOK, Journal!Copying
<1>7. JobOK' /\ Journal!ImportsAreClean'
  BY <1>6 DEF JobOK, Journal!ImportsAreClean
<1>8. \A c \in Journal!Existing : Keeps(journal_chat[c], journal_chat'[c])
  <2> SUFFICES ASSUME NEW c \in Journal!Existing PROVE Keeps(journal_chat[c], journal_chat'[c])
    OBVIOUS
  <2>1. Len(journal_chat'[c].events) \in Nat
    BY <1>1, RowIs
  <2> QED BY <2>1 DEF Keeps, Fills
<1>9. ASSUME NEW c \in Journal!Existing, journal_chat[c].from # None
      PROVE  /\ journal_chat[c].from.chat \in Journal!Existing
             /\ \E cp \in journal_chat'[journal_chat[c].from.chat].checkpoints :
                  cp.src = journal_chat[c].from.src
             /\ \A cp \in journal_chat'[journal_chat[c].from.chat].checkpoints :
                  cp.src = journal_chat[c].from.src =>
                    cp \in journal_chat[journal_chat[c].from.chat].checkpoints
  <2>1. journal_chat[c].from.chat \in Journal!Existing
    BY <1>9 DEF JournalInv, SourcesOK
  <2> QED BY <1>2, <1>3, <1>8, <1>9, <2>1, SourceStays
<1>10. SourcesOK'
  BY <1>1, <1>2, <1>9 DEF SourcesOK
<1>11. Journal!ForksStartAtCheckpoint'
  <2> SUFFICES ASSUME NEW c \in Journal!Existing', journal_chat'[c].from # None,
                      NEW cp \in journal_chat'[journal_chat'[c].from.chat].checkpoints,
                      cp.src = journal_chat'[c].from.src
               PROVE  CopiedAsFar(c, cp)'
    BY <1>6 DEF Journal!ForksStartAtCheckpoint, CopiedAsFar
  <2>1. /\ c \in Journal!Existing /\ journal_chat[c].from = journal_chat'[c].from
        /\ journal_chat'[c].events = journal_chat[c].events
    BY <1>1, <1>2
  <2>2. cp \in journal_chat[journal_chat[c].from.chat].checkpoints
    BY <1>9, <2>1
  <2>3. CopiedAsFar(c, cp)
    BY <2>1, <2>2, CutShort
  <2> QED BY <2>1, <2>3 DEF CopiedAsFar
<1> QED BY <1>3, <1>4, <1>5, <1>7, <1>10, <1>11 DEF JournalInv

\* The chats without a policy of their own get the project's.
LEMMA PoliciesFill ==
  ASSUME JournalInv, Journal!BackfillPolicies
  PROVE  /\ journal_chat' = [c \in JournalChats |-> journal_chat'[c]]
         /\ \A c \in JournalChats : journal_chat[c] = None => journal_chat'[c] = None
         /\ \A c \in Journal!Existing :
              /\ Fills(journal_chat[c], journal_chat'[c])
              /\ journal_chat'[c].entries = journal_chat[c].entries
              /\ journal_chat'[c].checkpoints = journal_chat[c].checkpoints
<1>1. journal_chat' =
        [c \in JournalChats |->
           IF journal_chat[c] = None THEN None
           ELSE [journal_chat[c] EXCEPT !.policy = IF @ = "missing" THEN journal_default ELSE @]]
  BY DEF Journal!BackfillPolicies, Journal!Rows
<1>2. ASSUME NEW c \in Journal!Existing
      PROVE  /\ Fills(journal_chat[c], journal_chat'[c])
             /\ journal_chat'[c].entries = journal_chat[c].entries
             /\ journal_chat'[c].checkpoints = journal_chat[c].checkpoints
  <2> DEFINE row == journal_chat[c]
             new == journal_chat'[c]
  <2>1. row \in Journal!ChatRows /\ c \in JournalChats /\ row # None
    BY ChatIs DEF JournalInv
  <2>2. new = [row EXCEPT !.policy = IF @ = "missing" THEN journal_default ELSE @]
    BY <1>1, <2>1
  <2>3. journal_default \in Journal!Policies
    BY DEF JournalInv, JournalTypes, Journal!Policies
  <2> HIDE DEF row, new
  <2>4. /\ new \in Journal!ChatRows /\ new.from = row.from /\ new.events = row.events
        /\ new.entries = row.entries /\ new.checkpoints = row.checkpoints
        /\ row.policy \in {"missing", new.policy}
    BY <2>1, <2>2, <2>3 DEF Journal!ChatRows
  <2>5. Journal!IsPrefix(row.entries, row.entries)
    BY <2>1, RowIs, PrefixItself
  <2> QED BY <2>4, <2>5 DEF Fills, row, new
<1> QED BY <1>1, <1>2

\* The context of a chat is made whole, or is whole already.
LEMMA SessionsFill ==
  ASSUME JournalInv, Journal!BackfillSessions
  PROVE  /\ journal_chat' = [c \in JournalChats |-> journal_chat'[c]]
         /\ \A c \in JournalChats : journal_chat[c] = None => journal_chat'[c] = None
         /\ \A c \in Journal!Existing :
              /\ Fills(journal_chat[c], journal_chat'[c])
              /\ Journal!Projected(journal_chat'[c], Len(journal_chat'[c].events))
<1>1. journal_chat' =
        [c \in JournalChats |->
           IF journal_chat[c] = None THEN None ELSE Journal!Backfilled(journal_chat[c])]
  BY DEF Journal!BackfillSessions, Journal!Rows
<1>2. ASSUME NEW c \in Journal!Existing
      PROVE  /\ Fills(journal_chat[c], journal_chat'[c])
             /\ Journal!Projected(journal_chat'[c], Len(journal_chat'[c].events))
  <2>1. journal_chat[c] \in Journal!ChatRows /\ c \in JournalChats /\ journal_chat[c] # None
    BY ChatIs DEF JournalInv
  <2>2. journal_chat'[c] = Journal!Backfilled(journal_chat[c])
    BY <1>1, <2>1
  <2>3. Journal!Projected(journal_chat[c], 0)
          \/ Journal!Projected(journal_chat[c], Len(journal_chat[c].events))
    BY DEF JournalInv, RowsOK
  <2>4. /\ Extends(journal_chat[c], journal_chat'[c])
        /\ Journal!Projected(journal_chat'[c], Len(journal_chat[c].events))
    BY <2>1, <2>2, <2>3, Backfilling
  <2> QED BY <2>4 DEF Extends, Fills
<1> QED BY <1>1, <1>2

LEMMA BackfillsKeep ==
  ASSUME JournalInv, Journal!BackfillPolicies \/ Journal!BackfillSessions
  PROVE  JournalInv'
<1>1. CASE Journal!BackfillPolicies
  <2>1. /\ journal_phase # "open" /\ journal_phase' # "open"
        /\ UNCHANGED <<journal_outcomes, journal_default, journal_job>>
    BY <1>1 DEF Journal!BackfillPolicies
  <2>2. ASSUME NEW c \in Journal!Existing
        PROVE  /\ Fills(journal_chat[c], journal_chat'[c])
               /\ \/ Journal!Projected(journal_chat'[c], Len(journal_chat'[c].events))
                  \/ /\ journal_phase' # "open" /\ Journal!Projected(journal_chat'[c], 0)
                     /\ journal_chat'[c].checkpoints = journal_chat[c].checkpoints
    <3>1. /\ Fills(journal_chat[c], journal_chat'[c])
          /\ journal_chat'[c].events = journal_chat[c].events
          /\ journal_chat'[c].entries = journal_chat[c].entries
          /\ journal_chat'[c].checkpoints = journal_chat[c].checkpoints
      BY <1>1, PoliciesFill DEF Fills
    <3>2. \/ Journal!Projected(journal_chat[c], Len(journal_chat[c].events))
          \/ Journal!Projected(journal_chat[c], 0)
      BY DEF JournalInv, RowsOK
    <3> QED BY <2>1, <3>1, <3>2, SameProjection
  <2> QED BY <1>1, <2>1, <2>2, PoliciesFill, FillKeeps
<1>2. CASE Journal!BackfillSessions
  <2>1. /\ journal_phase # "open"
        /\ UNCHANGED <<journal_outcomes, journal_default, journal_job>>
    BY <1>2 DEF Journal!BackfillSessions
  <2> QED BY <1>2, <2>1, SessionsFill, FillKeeps
<1> QED BY <1>1, <1>2

-----------------------------------------------------------------------------
\* A new database has no chat; an old one has journals and nothing projected.
LEMMA InitJournal == Journal!Init => JournalInv
<1> SUFFICES ASSUME Journal!Init PROVE JournalInv
  OBVIOUS
<1>1. /\ journal_outcomes = {} /\ journal_default \in {"ask", "full"} /\ journal_phase = "closed"
      /\ journal_job = None
      /\ \/ journal_chat \in [JournalChats -> {Journal!OldChat(es) : es \in Journal!OldJournals}]
         \/ journal_chat = [c \in JournalChats |-> None]
  BY DEF Journal!Init
<1>2. \A c \in Journal!Existing :
        \E es \in Journal!OldJournals : journal_chat[c] = Journal!OldChat(es)
  BY <1>1 DEF Journal!Existing
<1>3. ASSUME NEW es \in Journal!OldJournals
      PROVE  /\ es \in Seq(Journal!Events)
             /\ \A n \in DOMAIN es : es[n].type # "settlement"
  <2>1. /\ Journal!Note \in Journal!Events
        /\ Journal!Event("message", "plain", TRUE) \in Journal!Events
        /\ Journal!Event("checkpoint", "plain", TRUE) \in Journal!Events
        /\ Journal!Note.type # "settlement"
        /\ Journal!Event("message", "plain", TRUE).type # "settlement"
        /\ Journal!Event("checkpoint", "plain", TRUE).type # "settlement"
    BY DEF Journal!Note, Journal!Event, Journal!Events, Journal!Types, Journal!Texts
  <2>2. CASE es = <<Journal!Note>>
    BY <2>1, <2>2
  <2>3. CASE es = <<Journal!Note, Journal!Event("message", "plain", TRUE),
                   Journal!Event("checkpoint", "plain", TRUE)>>
    <3> DEFINE a == Journal!Note
               b == Journal!Event("message", "plain", TRUE)
               d == Journal!Event("checkpoint", "plain", TRUE)
    <3>1. /\ a \in Journal!Events /\ b \in Journal!Events /\ d \in Journal!Events
          /\ a.type # "settlement" /\ b.type # "settlement" /\ d.type # "settlement"
          /\ es = <<a, b, d>>
      BY <2>1, <2>3
    <3> HIDE DEF a, b, d
    <3> QED BY <3>1
  <2> QED BY <2>2, <2>3 DEF Journal!OldJournals
<1>4. ASSUME NEW es \in Journal!OldJournals
      PROVE  /\ Journal!OldChat(es) \in Journal!ChatRows
             /\ Journal!OldChat(es).events = es /\ Journal!OldChat(es).entries = <<>>
             /\ Journal!OldChat(es).checkpoints = {} /\ Journal!OldChat(es).from = None
  <2>1. es \in Seq(Journal!Events)
    BY <1>3
  <2>2. Journal!OldChat(es) =
          [policy |-> "missing", parent |-> None, from |-> None, events |-> es,
           entries |-> <<>>, checkpoints |-> {}]
    BY DEF Journal!OldChat, Journal!NewChat
  <2> QED BY <2>1, <2>2 DEF Journal!ChatRows, Journal!Policies
<1>5. \A c \in Journal!Existing :
        /\ journal_chat[c].entries = <<>> /\ journal_chat[c].checkpoints = {}
        /\ journal_chat[c].from = None
        /\ \A n \in DOMAIN journal_chat[c].events : journal_chat[c].events[n].type # "settlement"
  BY <1>2, <1>3, <1>4
<1>6. JournalTypes
  <2>1. \A c \in JournalChats : journal_chat[c] \in Journal!ChatRows \cup {None}
    BY <1>2, <1>4 DEF Journal!Existing
  <2>2. journal_chat = [c \in JournalChats |-> journal_chat[c]]
    BY <1>1
  <2> QED BY <1>1, <2>1, <2>2 DEF JournalTypes
<1>7. RowsOK
  <2>1. ASSUME NEW c \in Journal!Existing PROVE Journal!Projected(journal_chat[c], 0)
    BY <1>5 DEF Journal!Projected
  <2> QED BY <2>1, <1>1 DEF RowsOK
<1>8. SettledOK /\ JobOK /\ SourcesOK
  BY <1>1, <1>5 DEF SettledOK, JobOK, SourcesOK, Settles
<1>9. Journal!ForksStartAtCheckpoint /\ Journal!ImportsAreClean
  BY <1>1, <1>5 DEF Journal!ForksStartAtCheckpoint, Journal!ImportsAreClean, Journal!Copying
<1> QED BY <1>6, <1>7, <1>8, <1>9 DEF JournalInv

LEMMA ContinueKeeps == ASSUME JournalInv, Journal!Continue PROVE JournalInv'
<1> DEFINE e == Head(journal_job.todo)
           c0 == journal_job.chat
<1>1. /\ journal_phase = "open" /\ journal_job # None
      /\ journal_chat' = [journal_chat EXCEPT ![c0] = Journal!Appended(@, e)]
      /\ Brings(c0, e) /\ UNCHANGED <<journal_outcomes, journal_default, journal_phase>>
  BY DEF Journal!Continue, Brings
<1>2. c0 \in Journal!Existing
  BY <1>1, JobIs DEF JournalInv, JobOK, Journal!Existing
<1>3. e \in Journal!Events
  BY <1>1, JobIs, HeadTailProperties DEF JournalInv, JobOK
<1> QED BY <1>1, <1>2, <1>3, AppendKeeps

\* What turns append is not a settlement.
LEMMA TurnEventIs ==
  ASSUME NEW e \in Journal!TurnEvents
  PROVE  e \in Journal!Events /\ e.turn /\ e.type # "settlement"
<1>1. PICK text \in Journal!Texts, type \in {"message", "checkpoint"} :
        e = [type |-> type, text |-> text, turn |-> TRUE]
  <2>1. CASE \E text \in {"plain", "secret", "sponsored"} : e = Journal!Event("message", text, TRUE)
    BY <2>1 DEF Journal!Event, Journal!Texts
  <2>2. CASE e = Journal!Event("checkpoint", "plain", TRUE)
    BY <2>2 DEF Journal!Event, Journal!Texts
  <2> QED BY <2>1, <2>2 DEF Journal!TurnEvents
<1>2. type \in Journal!Types \ {"settlement"}
  BY DEF Journal!Types
<1> QED BY <1>1, <1>2 DEF Journal!Events

LEMMA TurnKeeps ==
  ASSUME JournalInv, NEW c0 \in JournalChats, NEW e \in Journal!TurnEvents,
         Journal!TurnAppends(c0, e)
  PROVE  JournalInv'
<1>1. /\ journal_phase = "open" /\ journal_job = None /\ journal_job' = None
      /\ c0 \in Journal!Existing
      /\ journal_chat' = [journal_chat EXCEPT ![c0] = Journal!Appended(@, e)]
      /\ UNCHANGED <<journal_outcomes, journal_default, journal_phase>>
  BY DEF Journal!TurnAppends, Journal!Free, Journal!Room, Journal!Existing
<1>2. e \in Journal!Events /\ e.turn /\ e.type # "settlement"
  BY TurnEventIs
<1> QED BY <1>1, <1>2, AppendKeeps DEF Brings

\* A write that fails ends the job, and deletes the copy it was of.
LEMMA FailsKeep == ASSUME JournalInv, Journal!Fails PROVE JournalInv'
<1>1. /\ journal_job # None /\ journal_job' = None
      /\ UNCHANGED <<journal_outcomes, journal_default, journal_phase>>
      /\ journal_chat' = journal_chat \/ journal_chat' = Journal!Without(journal_job.chat)
  BY DEF Journal!Fails
<1>2. \A c \in Journal!Existing \ {journal_job.chat} : ~Journal!Copying(c)
  BY DEF Journal!Copying
<1>3. journal_default \in {"ask", "full"}
  BY DEF JournalInv, JournalTypes
<1>4. CASE journal_chat' = journal_chat
  BY <1>1, <1>3, <1>4, JobGone
<1>5. CASE journal_chat' = Journal!Without(journal_job.chat)
  <2> DEFINE gone == journal_job.chat
  <2>1. /\ journal_chat' = Journal!Without(gone) /\ journal_outcomes' = journal_outcomes
        /\ \A c \in Journal!Existing \ {gone} : ~Journal!Copying(c)
    BY <1>1, <1>2, <1>5
  <2> HIDE DEF gone
  <2> QED BY <1>1, <2>1, WithoutKeeps
<1> QED BY <1>1, <1>4, <1>5

\* Every transaction of the database keeps the invariant.
LEMMA StepJournal == JournalInv /\ (Journal!Next \/ UNCHANGED journal_vars) => JournalInv'
<1> SUFFICES ASSUME JournalInv, Journal!Next \/ UNCHANGED journal_vars PROVE JournalInv'
  OBVIOUS
<1>1. /\ journal_default \in {"ask", "full"}
      /\ journal_phase # "open" => journal_job = None
      /\ \A c : journal_job = None => ~Journal!Copying(c)
  BY DEF JournalInv, JournalTypes, JobOK, Journal!Copying
<1>2. CASE Journal!Migrate \/ Journal!Crash \/ Journal!ChangeDefault \/ UNCHANGED journal_vars
  <2>1. /\ UNCHANGED <<journal_chat, journal_outcomes>>
        /\ journal_default' \in {"ask", "full"}
        /\ journal_phase' = journal_phase \/ journal_phase' # "open"
        /\ journal_job' = None \/ (journal_job' = journal_job /\ journal_phase' = journal_phase)
    BY <1>1, <1>2
    DEF Journal!Migrate, Journal!Crash, Journal!ChangeDefault, Journal!Free, journal_vars
  <2> QED BY <2>1, JobGone
<1>3. ASSUME NEW c \in JournalChats, Journal!DeleteChat(c) PROVE JournalInv'
  <2>1. /\ journal_chat' = Journal!Without(c) /\ journal_job' = None
        /\ journal_outcomes' = {o \in journal_outcomes : o[2] # c}
        /\ \A d \in Journal!Existing \ {c} : ~Journal!Copying(d)
        /\ UNCHANGED <<journal_default, journal_phase>>
    BY <1>1, <1>3 DEF Journal!DeleteChat, Journal!Free
  <2> QED BY <2>1, WithoutKeeps
<1>4. ASSUME NEW c \in JournalChats, NEW s \in JournalChats,
             NEW cp \in (IF journal_chat[s] = None THEN {} ELSE journal_chat[s].checkpoints),
             Journal!Fork(c, s, cp)
      PROVE  JournalInv'
  <2>1. cp \in journal_chat[s].checkpoints
    OBVIOUS
  <2> QED BY <1>4, <2>1, ForkKeeps
<1> QED BY <1>2, <1>3, <1>4, ContinueKeeps, TurnKeeps, FailsKeep, SettleKeeps, CreateKeeps,
           ImportKeeps, BackfillsKeep DEF Journal!Next

-----------------------------------------------------------------------------
\* What a step may do to a chat that is there before and after.
Grows(c) ==
  /\ Journal!IsPrefix(journal_chat[c].events, journal_chat'[c].events)
  /\ Journal!IsPrefix(journal_chat[c].entries, journal_chat'[c].entries)
  /\ journal_chat[c].checkpoints \subseteq journal_chat'[c].checkpoints
  /\ journal_chat[c].policy \in {"missing", journal_chat'[c].policy}

\* A chat whose journal and context stay grows.
LEMMA StaysGrows ==
  ASSUME JournalInv, NEW c \in Journal!Existing,
         journal_chat'[c].events = journal_chat[c].events,
         journal_chat'[c].entries = journal_chat[c].entries,
         journal_chat'[c].checkpoints = journal_chat[c].checkpoints,
         journal_chat'[c].policy = journal_chat[c].policy
  PROVE  Grows(c)
<1>1. journal_chat[c].events \in Seq(Journal!Events) /\ journal_chat[c].entries \in Seq(Journal!Entries)
  BY ChatIs, RowIs DEF JournalInv
<1>2. /\ Journal!IsPrefix(journal_chat[c].events, journal_chat[c].events)
      /\ Journal!IsPrefix(journal_chat[c].entries, journal_chat[c].entries)
  BY <1>1, PrefixItself
<1> QED BY <1>2 DEF Grows

LEMMA AppendGrows ==
  ASSUME JournalInv, journal_phase = "open", NEW c0 \in Journal!Existing,
         NEW e \in Journal!Events,
         journal_chat' = [journal_chat EXCEPT ![c0] = Journal!Appended(@, e)],
         NEW c \in Journal!Existing
  PROVE  Grows(c)
<1>1. /\ Lengthens(journal_chat[c0], journal_chat'[c0], e)
      /\ c # c0 => journal_chat'[c] = journal_chat[c]
  BY AppendIs
<1>2. CASE c = c0
  <2>1. Journal!IsPrefix(journal_chat[c].events, Append(journal_chat[c].events, e))
    BY ChatIs, AppendExtends DEF JournalInv
  <2> QED BY <1>1, <1>2, <2>1 DEF Lengthens, Grows
<1>3. CASE c # c0
  BY <1>1, <1>3, StaysGrows
<1> QED BY <1>2, <1>3

\* Every transaction takes nothing from a chat that stays.
LEMMA StepGrows == JournalInv /\ (Journal!Next \/ UNCHANGED journal_vars) => Journal!OnlyGrows
<1> SUFFICES ASSUME JournalInv, Journal!Next \/ UNCHANGED journal_vars,
                    NEW c \in Journal!Existing, c \in Journal!Existing'
             PROVE  Grows(c)
  BY DEF Journal!OnlyGrows, Journal!Existing, Grows
<1>1. c \in JournalChats /\ journal_chat[c] # None
  BY DEF Journal!Existing
<1>2. CASE journal_chat' = journal_chat
  BY <1>2, StaysGrows
<1>3. ASSUME NEW gone, journal_chat' = Journal!Without(gone) PROVE Grows(c)
  BY <1>3, WithoutIs, StaysGrows DEF JournalInv
<1>4. ASSUME NEW d \in JournalChats, journal_chat[d] = None, NEW row,
             journal_chat' = [journal_chat EXCEPT ![d] = row]
      PROVE  Grows(c)
  <2>1. journal_chat'[c] = journal_chat[c]
    BY <1>1, <1>4 DEF JournalInv, JournalTypes
  <2> QED BY <2>1, StaysGrows
<1>5. CASE Journal!BackfillPolicies \/ Journal!BackfillSessions
  <2>1. Fills(journal_chat[c], journal_chat'[c])
    BY <1>5, PoliciesFill, SessionsFill
  <2>2. Journal!IsPrefix(journal_chat[c].events, journal_chat[c].events)
    BY ChatIs, PrefixItself DEF JournalInv
  <2> QED BY <2>1, <2>2 DEF Fills, Grows
<1>6. CASE Journal!Continue
  <2> DEFINE e == Head(journal_job.todo)
             c0 == journal_job.chat
  <2>1. /\ journal_phase = "open" /\ journal_job # None
        /\ journal_chat' = [journal_chat EXCEPT ![c0] = Journal!Appended(@, e)]
    BY <1>6 DEF Journal!Continue
  <2>2. c0 \in Journal!Existing
    BY <2>1, JobIs DEF JournalInv, JobOK, Journal!Existing
  <2>3. e \in Journal!Events
    BY <2>1, JobIs, HeadTailProperties DEF JournalInv, JobOK
  <2> QED BY <2>1, <2>2, <2>3, AppendGrows
<1>7. ASSUME NEW d \in JournalChats, NEW e \in Journal!TurnEvents, Journal!TurnAppends(d, e)
      PROVE  Grows(c)
  <2>1. /\ journal_phase = "open" /\ d \in Journal!Existing
        /\ journal_chat' = [journal_chat EXCEPT ![d] = Journal!Appended(@, e)]
    BY <1>7 DEF Journal!TurnAppends, Journal!Free, Journal!Room, Journal!Existing
  <2>2. e \in Journal!Events
    BY TurnEventIs
  <2> QED BY <2>1, <2>2, AppendGrows
<1>8. CASE Journal!Migrate \/ Journal!Crash \/ Journal!ChangeDefault \/ UNCHANGED journal_vars
  BY <1>2, <1>8 DEF Journal!Migrate, Journal!Crash, Journal!ChangeDefault, journal_vars
<1>9. CASE Journal!Fails
  BY <1>2, <1>3, <1>9 DEF Journal!Fails
<1>10. ASSUME NEW d \in JournalChats, Journal!CreateChat(d) PROVE Grows(c)
  BY <1>4, <1>10 DEF Journal!CreateChat
<1>11. ASSUME NEW d \in JournalChats, Journal!DeleteChat(d) PROVE Grows(c)
  BY <1>3, <1>11 DEF Journal!DeleteChat
<1>12. ASSUME NEW d \in JournalChats, NEW document, Journal!Import(d, document) PROVE Grows(c)
  BY <1>4, <1>12 DEF Journal!Import, Journal!CopyInto
<1>13. ASSUME NEW d \in JournalChats, NEW s, NEW cp, Journal!Fork(d, s, cp) PROVE Grows(c)
  BY <1>4, <1>13 DEF Journal!Fork, Journal!CopyInto
<1>14. ASSUME NEW d \in JournalChats, NEW r, Journal!Settle(d, r) PROVE Grows(c)
  BY <1>2, <1>14 DEF Journal!Settle
<1> QED BY <1>5, <1>6, <1>7, <1>8, <1>9, <1>10, <1>11, <1>12, <1>13, <1>14 DEF Journal!Next

-----------------------------------------------------------------------------
JournalHolds == which = "journal" => JournalInv

LEMMA JournalBegin == MCInit => JournalHolds
BY InitJournal DEF MCInit, JournalBegins, JournalHolds

LEMMA JournalSteps ==
  JournalHolds /\ [MCNext]_MCVars =>
    JournalHolds' /\ (which = "journal" => Journal!OnlyGrows)
<1> SUFFICES ASSUME JournalHolds, [MCNext]_MCVars
             PROVE  JournalHolds' /\ (which = "journal" => Journal!OnlyGrows)
  OBVIOUS
<1>1. which' = which
  BY DEF MCNext, MCVars
<1>2. which = "journal" => Journal!Next \/ UNCHANGED journal_vars
  BY DEF MCNext, MCVars, journal_vars
<1> QED BY <1>1, <1>2, StepJournal, StepGrows DEF JournalHolds

\* The invariant holds of every database, whatever it went through.
LEMMA JournalAlways == MCSpec => []JournalHolds
<1>1. JournalHolds /\ [MCNext]_MCVars => JournalHolds'
  BY JournalSteps
<1> QED BY <1>1, JournalBegin, PTL DEF MCSpec

\* For any chats and requests, and journals of any length: once the database is open, the
\* context of a chat is its journal projected in order, each portable event once, and each
\* checkpoint fits, whatever transactions starts, forks and imports were cut between.
THEOREM ContextsFit == MCSpec => []ContextMatchesJournal
<1>1. JournalHolds => ContextMatchesJournal
  BY DEF JournalHolds, JournalInv, RowsOK, ContextMatchesJournal, Journal!ContextMatchesJournal
<1> QED BY <1>1, JournalAlways, PTL

\* A fork carries the context of its checkpoint and nothing after it, and an import nothing
\* that an export would have redacted, at every step of a copy and after it.
THEOREM CopiesAreWhatTheySay == MCSpec => []CopiesAreFaithful
<1>1. JournalHolds => CopiesAreFaithful
  BY DEF JournalHolds, JournalInv, CopiesAreFaithful
<1> QED BY <1>1, JournalAlways, PTL

\* No settlement is in two places of the journals, however often it is reported.
THEOREM SettlementsAreJournaledOnce == MCSpec => []SettledOnce
<1>1. JournalHolds => SettledOnce
  BY NoSettlementTwice DEF JournalHolds, SettledOnce
<1> QED BY <1>1, JournalAlways, PTL

\* No transaction takes events, context or checkpoints from a chat, nor changes the policy it
\* has: in particular a start that projects a journal again leaves what is projected alone.
THEOREM HistoryOnlyGrows == MCSpec => HistoryIsAppendOnly
<1>1. JournalHolds /\ [MCNext]_MCVars => [which = "journal" => Journal!OnlyGrows]_MCVars
  BY JournalSteps
<1> QED BY <1>1, JournalAlways, PTL DEF MCSpec, HistoryIsAppendOnly
=============================================================================
