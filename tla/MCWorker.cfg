SPECIFICATION MCFairSpec
CONSTANTS
  None = None
  Broken = Broken
  Limit = 3
  Hold = 2
  MaxPrompts = 2
  MaxApprovals = 2
  MaxPost = 3
  MaxChildren = 1
  MaxChats = 3
  MaxChatTurns = 3
  MaxProposals = 1
  MaxMade = 1
  MaxEdits = 2
  MaxProposingTurns = 2
  GitChats = {"c1"}
  Branches = {"main", "topic"}
  Main = "main"
  MaxPreviews = 1
  MaxContents = 1
  MaxCommits = 2
  MaxOps = 1
  Versions = {1, 2, 3}
  MaxTokens = 2
INVARIANTS
  SessionAgrees
  RequestIsWhole
  
  AppliedWhole
  ChildrenNeverDelegate
  LiveTurnHasItsChat
  AppSurvives
PROPERTIES
  NoWorkPastDeadline
  DoesWhatWasReviewed
  BoundaryReleased
CHECK_DEADLOCK FALSE
