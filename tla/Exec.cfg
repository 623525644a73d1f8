CONSTANTS
  MaxChars = 4
  MaxSessions = 2
  MaxOutput = 5
  MaxReplies = 2
SPECIFICATION Spec
INVARIANTS
  RepliesAccount
  HandlesAgree
CHECK_DEADLOCK FALSE
