CONSTANTS
  MaxTurns = 2
  MaxLines = 9
  MaxFails = 1
SPECIFICATION Spec
INVARIANTS
  AppendedLinesAreRead
  ReplayIsHistory
  CompleteTurnsReplayWhole
  ForksKeepFirstTurns
CHECK_DEADLOCK FALSE
