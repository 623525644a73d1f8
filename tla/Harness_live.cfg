CONSTANTS
  MaxSubs = 2
  MaxCalls = 1
  MaxWork = 3
  Cmds = {make}
  CmdOf <- SameCmd
  Verdict <- PromptRule
  ApprovalPolicy = "never"
  FullAccess = FALSE
  Seatbelt = FALSE
  Ops <- QuietOps
SPECIFICATION LiveSpec
PROPERTIES TurnsEnd CorrectionsAreSaid OpsKeepBeingHandled
CHECK_DEADLOCK FALSE
