SPECIFICATION Spec
CONSTANTS
  Limit = 3
  Hold = 2
  MaxPrompts = 2
  MaxApprovals = 2
  MaxPost = 3
PROPERTIES
  AcceptedInputIsTaken
