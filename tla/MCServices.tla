----------------------------- MODULE MCServices -----------------------------
(* The main process as the user and other programs see it, each part in          *)
(* behaviours of its own: the local interface, the journals of the chats, the    *)
(* files of a workspace, and the window.                                         *)
EXTENDS LocalRpc, TLC

CONSTANTS JournalChats, JournalTurns, JournalEvents, \* as in SessionJournal
          FilePaths, FilesPatched,                  \* as in WorkspaceFiles: Paths, PatchedPaths
          MaxEntries, MaxOps, MaxMessages, MaxContents

\* A missing file has neither a content, which is a number, nor a path.
ASSUME FilesAssumption ==
  None \notin Nat /\ None \notin FilePaths /\ FilesPatched \subseteq FilePaths

VARIABLES
  which,  \* the module whose behaviour this is; it never changes
  journal_chat, journal_outcomes, journal_default, journal_phase, journal_schema,
  journal_job,
  files_disk, files_vault, files_agent, files_messages, files_base, files_before,
  files_revert, files_fresh, files_mine,
  window_journal, window_gone, window_remote, window_subs, window_toMain, window_toWindow,
  window_call, window_selected, window_newTask, window_view, window_known, window_listed,
  window_detail, window_acts, window_missed

journal_vars == <<
  journal_chat, journal_outcomes, journal_default, journal_phase, journal_schema,
  journal_job>>
files_vars == <<
  files_disk, files_vault, files_agent, files_messages, files_base, files_before,
  files_revert, files_fresh, files_mine>>
window_vars == <<
  window_journal, window_gone, window_remote, window_subs, window_toMain, window_toWindow,
  window_call, window_selected, window_newTask, window_view, window_known, window_listed,
  window_detail, window_acts, window_missed>>

Symmetry == Permutations(JournalChats)
MCEventKinds == {"begins", "ends", "ask", "answer", "attend"}

Journal == INSTANCE SessionJournal WITH
  Chats <- JournalChats, RouterTurns <- JournalTurns, MaxEvents <- JournalEvents, chat <- journal_chat,
  outcomes <- journal_outcomes, default <- journal_default, phase <- journal_phase,
  schema <- journal_schema, job <- journal_job

\* None is no chat, no checkpoint's name and no job, and no text names a request.
ASSUME JournalAssumption ==
  /\ None \notin Journal!ChatRows /\ None \notin Journal!Origins /\ None \notin Journal!Jobs
  /\ JournalTurns \cap Journal!Texts = {}

Files == INSTANCE WorkspaceFiles WITH
  Paths <- FilePaths, PatchedPaths <- FilesPatched, disk <- files_disk, vault <- files_vault,
  agent <- files_agent, messages <- files_messages, base <- files_base,
  before <- files_before, revert <- files_revert, fresh <- files_fresh, mine <- files_mine

Window == INSTANCE ChatWindow WITH
  Chats <- {"a", "b"}, Made <- {"a"}, EventKinds <- MCEventKinds, MaxHappenings <- 4,
  journal <- window_journal, gone <- window_gone, remote <- window_remote,
  subs <- window_subs, toMain <- window_toMain, toWindow <- window_toWindow,
  call <- window_call, selected <- window_selected, newTask <- window_newTask,
  view <- window_view, known <- window_known, listed <- window_listed,
  detail <- window_detail, acts <- window_acts, missed <- window_missed

\* The variables of the module are its own, and those of another rest.
JournalBegins ==
  IF which = "journal" THEN Journal!Init
  ELSE /\ journal_chat = 0
       /\ journal_outcomes = 0
       /\ journal_default = 0
       /\ journal_phase = 0
       /\ journal_schema = 0
       /\ journal_job = 0

MCInit ==
  /\ which \in {"rpc", "journal", "files", "window"}
  /\ Init
  /\ JournalBegins
  /\ Files!Init
  /\ Window!Init

MCNext ==
  /\ UNCHANGED which
  /\ \/ /\ which = "rpc" /\ Next
        /\ UNCHANGED <<journal_vars, files_vars, window_vars>>
     \/ /\ which = "journal" /\ Journal!Next
        /\ UNCHANGED <<vars, files_vars, window_vars>>
     \/ /\ which = "files" /\ Files!Next
        /\ UNCHANGED <<vars, journal_vars, window_vars>>
     \/ /\ which = "window" /\ Window!Next
        /\ UNCHANGED <<vars, journal_vars, files_vars>>

MCVars == <<which, vars, journal_vars, files_vars, window_vars>>
MCSpec == MCInit /\ [][MCNext]_MCVars

-----------------------------------------------------------------------------
\* Whatever transactions a start, a fork or an import was cut between, the context of a
\* chat is its journal projected in order, and its checkpoints fit.
ContextMatchesJournal == which = "journal" => Journal!ContextMatchesJournal

\* A fork carries the context of its checkpoint and nothing after it; an import carries
\* nothing an export would have redacted.
CopiesAreFaithful ==
  which = "journal" => Journal!ForksStartAtCheckpoint /\ Journal!ImportsAreClean

\* A settlement is journaled once, however often it is reported.
SettledOnce == which = "journal" => Journal!SettledOnce

\* No transaction takes events, context or checkpoints from a chat, or changes its policy.
HistoryIsAppendOnly == [][which = "journal" => Journal!OnlyGrows]_MCVars

\* However answers, events and selections cross, the window shows no event twice and, when
\* nothing is on its way, every event of the selected chat.
WindowShowsJournal == Window!NoEventTwice /\ Window!ShownIsCurrent

\* What the user has left in a file survives every tool and every revert.
NothingIsLost == Files!NothingIsLost
=============================================================================
