SPECIFICATION Spec
CONSTANTS
  Catalog <- ReuseCatalog
  Buckets <- MCBuckets
  Bucket <- MCBucket
  RecMax = 128
  Kinds = {"parse", "scan"}
  StackSize = 12
  MaxRuns = 2
  MaxAborts = 1
INVARIANTS
  TypeOK
  ReturnsMeaning
  ScansToFirst
  InputFilled
  AbortHeeded
CHECK_DEADLOCK FALSE
