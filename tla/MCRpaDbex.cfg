SPECIFICATION Spec
CONSTANTS
  Texts <- MCTexts
  Inputs = {}
  MaxLoads = 3
INVARIANTS
  OffersUntilClosed
  CallsLookedUp
  CompiledAfresh
CHECK_DEADLOCK FALSE
