CONSTANTS
  Texts <- SomeTexts
  Blank = ""
  Paths = {p, q}
  Files <- SomeFiles
  Contents <- SomeContents
  Edits <- SomeEdits
  MaxHunks = 2
SPECIFICATION Spec
INVARIANT AllOrNothing
CHECK_DEADLOCK FALSE
