CONSTANTS
  MaxSubs = 2
  MaxCalls = 1
  MaxWork = 3
  Cmds = {make}
  CmdOf <- SameCmd
  Verdict <- PromptRule
  ApprovalPolicy = "on-request"
  FullAccess = FALSE
  Seatbelt = TRUE
  Ops <- AllOps
SPECIFICATION LiveSpec
PROPERTIES OpsKeepBeingHandled
CHECK_DEADLOCK FALSE
