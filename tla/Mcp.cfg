CONSTANTS
  Servers = {docs, wiki}
  Calls = {c1, c2}
  MaxExtra = 1
  OwnIds = {3}
  Nobody = Nobody
SPECIFICATION Spec
INVARIANTS
  AnswersAreTheirs
  StartupReported
  NothingLeftRunning
SYMMETRY Symmetry
CHECK_DEADLOCK FALSE
