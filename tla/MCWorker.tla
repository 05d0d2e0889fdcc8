------------------------------ MODULE MCWorker ------------------------------
(* What a turn works with, each part in behaviours of its own: the gate before    *)
(* its work, its context, Git, the dependencies it asks for and the turns it      *)
(* delegates; and the program that installs the application.                      *)
EXTENDS PresenceGate

CONSTANTS None, Broken,
          MaxChildren, MaxChats, MaxChatTurns,                \* as in Delegation
          MaxProposals, MaxMade, MaxEdits, MaxProposingTurns, \* as in DependencyPreview
          GitChats, Branches, Main, MaxPreviews,              \* as in GitWorkflow
          MaxContents, MaxCommits, MaxOps,
          Versions, MaxTokens                                 \* as in Installer

\* A missing file has no content, and contents are numbers.
ASSUME ContentAssumption == None \notin Nat

\* There is a branch to begin with.
ASSUME GitAssumption == Main \in Branches

\* What is missing or broken is of no version, and what is missing is not pending.
ASSUME InstallerAssumption ==
  /\ None \notin Versions /\ Broken \notin Versions
  /\ None \notin [target : Versions, previous : Versions \cup {None}, token : Nat, late : BOOLEAN]

VARIABLES
  which,  \* the module whose behaviour this is; it never changes
  context_journal, context_context, context_request, context_state, context_waiting,
  context_stage, context_left,
  git_file, git_index, git_ref, git_tips, git_remote, git_fresh, git_tasks, git_previews,
  git_queue,
  deps_disk, deps_turn, deps_previews, deps_tool, deps_queue, deps_proposals, deps_fresh,
  deps_edits, deps_text, deps_hit, deps_sent, deps_torn,
  del_threads, del_starting, del_live, del_turns, del_line,
  inst_app, inst_rollback, inst_receipt, inst_pending, inst_marker, inst_launcher,
  inst_running, inst_tokens, inst_owed

context_vars == <<
  context_journal, context_context, context_request, context_state, context_waiting,
  context_stage, context_left>>
git_vars == <<
  git_file, git_index, git_ref, git_tips, git_remote, git_fresh, git_tasks, git_previews,
  git_queue>>
deps_vars == <<
  deps_disk, deps_turn, deps_previews, deps_tool, deps_queue, deps_proposals, deps_fresh,
  deps_edits, deps_text, deps_hit, deps_sent, deps_torn>>
del_vars == <<
  del_threads, del_starting, del_live, del_turns, del_line>>
inst_vars == <<
  inst_app, inst_rollback, inst_receipt, inst_pending, inst_marker, inst_launcher,
  inst_running, inst_tokens, inst_owed>>

Context == INSTANCE AgentContext WITH
  MaxMessages <- 6, MaxCompactions <- 2, Keep <- 4, Threshold <- 5,
  journal <- context_journal, context <- context_context, request <- context_request,
  state <- context_state, waiting <- context_waiting, stage <- context_stage,
  left <- context_left

Git == INSTANCE GitWorkflow WITH
  Chats <- GitChats, file <- git_file, index <- git_index,
  ref <- git_ref, tips <- git_tips, remote <- git_remote, fresh <- git_fresh,
  tasks <- git_tasks, previews <- git_previews, queue <- git_queue

Dependencies == INSTANCE DependencyPreview WITH
  MaxTurns <- MaxProposingTurns, disk <- deps_disk, turn <- deps_turn,
  previews <- deps_previews, tool <- deps_tool, queue <- deps_queue,
  proposals <- deps_proposals, fresh <- deps_fresh, edits <- deps_edits, text <- deps_text,
  hit <- deps_hit, sent <- deps_sent, torn <- deps_torn

Delegating == INSTANCE Delegation WITH
  MaxTurns <- MaxChatTurns, threads <- del_threads,
  starting <- del_starting, live <- del_live, turns <- del_turns, line <- del_line

Installing == INSTANCE Installer WITH
  Launchers <- {"l1"}, app <- inst_app,
  rollback <- inst_rollback, receipt <- inst_receipt, pending <- inst_pending,
  marker <- inst_marker, launcher <- inst_launcher, running <- inst_running,
  tokens <- inst_tokens, owed <- inst_owed

\* The variables of the module are its own, and those of another rest.
DependenciesBegins ==
  IF which = "dependencies" THEN Dependencies!Init
  ELSE /\ deps_disk = 0
       /\ deps_turn = 0
       /\ deps_previews = 0
       /\ deps_tool = 0
       /\ deps_queue = 0
       /\ deps_proposals = 0
       /\ deps_fresh = 0
       /\ deps_edits = 0
       /\ deps_text = 0
       /\ deps_hit = 0
       /\ deps_sent = 0
       /\ deps_torn = 0

MCInit ==
  /\ which \in {"gate", "context", "git", "dependencies", "delegation", "installer"}
  /\ Init
  /\ Context!Init
  /\ Git!Init
  /\ DependenciesBegins
  /\ Delegating!Init
  /\ Installing!Init

MCNext ==
  /\ UNCHANGED which
  /\ \/ /\ which = "gate" /\ Next
        /\ UNCHANGED <<context_vars, git_vars, deps_vars, del_vars, inst_vars>>
     \/ /\ which = "context" /\ Context!Next
        /\ UNCHANGED <<vars, git_vars, deps_vars, del_vars, inst_vars>>
     \/ /\ which = "git" /\ Git!Next
        /\ UNCHANGED <<vars, context_vars, deps_vars, del_vars, inst_vars>>
     \/ /\ which = "dependencies" /\ Dependencies!Next
        /\ UNCHANGED <<vars, context_vars, git_vars, del_vars, inst_vars>>
     \/ /\ which = "delegation" /\ Delegating!Next
        /\ UNCHANGED <<vars, context_vars, git_vars, deps_vars, inst_vars>>
     \/ /\ which = "installer" /\ Installing!Next
        /\ UNCHANGED <<vars, context_vars, git_vars, deps_vars, del_vars>>

MCVars == <<which, vars, context_vars, git_vars, deps_vars, del_vars, inst_vars>>
MCSpec == MCInit /\ [][MCNext]_MCVars

\* The fairness of the gate, in its own behaviours.
MCFairSpec ==
  /\ MCSpec
  /\ WF_vars(which = "gate" /\ Tick) /\ WF_vars(which = "gate" /\ Hears)
  /\ WF_vars(which = "gate" /\ ChildReceives)
  /\ WF_vars(which = "gate" /\ agent = "blocked" /\ Boundary)
  /\ WF_vars(which = "gate" /\ AcknowledgePresence)

-----------------------------------------------------------------------------
\* However the context was compacted, a request splits no call from its result and covers
\* everything that was said.
RequestIsWhole == Context!RequestIsWhole

\* What the agent did is part of the history of every later turn, whenever a turn ended.
WorkIsRemembered == Context!WorkIsRemembered

\* An operation of Git makes exactly what its review showed.
DoesWhatWasReviewed == Git!DoesWhatWasReviewed

\* Dependencies are applied whole or not at all, and no edit of the user is overwritten.
AppliedWhole ==
  which = "dependencies" => Dependencies!AppliedWhole /\ Dependencies!EditsSurvive

\* No child delegates, whatever was deleted or forked in between.
ChildrenNeverDelegate == Delegating!ChildrenNeverDelegate

\* No turn goes on of a chat that was deleted.
LiveTurnHasItsChat == Delegating!LiveTurnHasItsChat

\* An installed application survives every failed install, update and rollback.
AppSurvives == Installing!AppSurvives
=============================================================================
