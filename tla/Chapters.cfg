CONSTANTS
  Dirs = {"/repo", "/other"}
  Modes = {"read-only", "full", "unknown"}
  Unknown = {"unknown"}
  Dates = {1, 2}
  Keep = Keep
  MaxTurns = 3
  MaxItems = 7
  Configs <- SomeConfigs
  Writes <- SomeWrites
  RecordLimit = 5
  Turns = {1, 2}
  CallIds = {1, 2}
  CmdOf <- SameCommand
  Trusted = {}
  MaxQueue = 2
  MaxSubs = 4
  MaxCalls = 1
  CharsPerToken = 2
  Overhead = 1
  MaxTokens = 3
  Threshold = 9
  Trees <- SomeTrees
  Shapes <- SomeShapes
  Sizes = {5}
  MaxSaid = 3
  DialogueLimit = 2
SPECIFICATION ChaptersSpec
INVARIANTS
  ModelKnowsContext
  EveryCallAnswered
  ConsentIsTheUsers
  KeepsNewestRequests
  CompactionUsesItsBudget
  LeadingBlocksSurvive
PROPERTIES
  ThreadSteers
CHECK_DEADLOCK FALSE
