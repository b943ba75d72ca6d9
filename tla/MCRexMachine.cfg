SPECIFICATION Spec
CONSTANTS
  CharMax = 6
  NewLine = 3
  HashBytes = 2
  HashBits = 2
  Texts <- MCTexts
  Others <- MCOthers
  MaxAdds = 2
  Alphabet = {1, 2, 3, 6}
  MaxInput = 4
  ScanTexts <- MCScanTexts
  Noises <- MCNoises
INVARIANTS
  TakesReadable
  RunsAgree
  TransitionsComplete
  ScanFindsFirst
PROPERTY
  LeavesNothing
CHECK_DEADLOCK FALSE
