SPECIFICATION Spec
CONSTANTS
  Texts <- ReopenedTexts
  Inputs = {}
  MaxLoads = 3
INVARIANT OffersCurrent
