CONSTANTS
  MaxSubs = 3
  MaxCalls = 2
  MaxWork = 4
  Cmds = {make}
  CmdOf <- SameCmd
  Verdict <- PromptRule
  ApprovalPolicy = "on-request"
  FullAccess = FALSE
  Seatbelt = TRUE
  Ops <- AllOps
SPECIFICATION Spec
INVARIANTS
  OneTurnAtATime
  ApprovalsMatchAsks
  UnsandboxedOnlyByConsent
  TurnStory
  CompletionStrandsNothing
  SaidInOrder
  ItemsComplete
PROPERTIES
  RequestsPaired
  ImplementsSteering
CHECK_DEADLOCK FALSE
