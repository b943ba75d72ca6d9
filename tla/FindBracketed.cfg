SPECIFICATION Spec
CONSTANTS
  Catalog <- BracketedCatalog
  Buckets <- MCBuckets
  Bucket <- MCBucket
  RecMax = 128
  Kinds = {"match"}
  StackSize = 60
  MaxRuns = 1
  MaxAborts = 0
INVARIANT ReturnsMeaning
CHECK_DEADLOCK FALSE
