CONSTANTS
  Texts <- SomeTexts
  Blank = ""
  Contents <- SomeContents
  Candidates <- SomeChunks
  MaxChunks = 2
  Plain = {"git", "log", "push"}
  Paths = {"/usr/bin/git", "/tmp/git"}
  Basename <- Git
  RuleFiles <- SomeRuleFiles
  LineLimit = 3
  MaxRules = 4
  Depth = 2
  NoteContents = {"absent", "blank", "undecodable", "ours", "theirs"}
  HookFiles <- SomeHookFiles
  MaxSize = 1
  Plans <- SomePlans
SPECIFICATION LibrariesSpec
INVARIANTS
  EditsInOrder
  ExactPatchApplies
  VerdictIsStrictest
  OnlyUnopposedCallsRun
  ContextArrivesBounded
PROPERTIES
  AmendmentLoosensItsOwn
  NotesAreTheProjects
CHECK_DEADLOCK FALSE
