CONSTANTS
  Texts <- SomeTexts
  Blank = ""
  Paths = {p, q, r}
  Files <- SomeFiles
  Contents <- SomeContents
  Edits <- SomeEdits
  MaxHunks = 2
SPECIFICATION Spec
INVARIANTS
  RefusedLeavesDisk
  AppliedInFull
  RaisesOnlyOnConflict
SYMMETRY Symmetry
CHECK_DEADLOCK FALSE
