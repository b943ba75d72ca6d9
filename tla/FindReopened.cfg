SPECIFICATION Spec
CONSTANTS
  Texts <- ReopenedTexts
  Inputs <- ReopenedInputs
  MaxLoads = 3
INVARIANT AdmitsMatches
