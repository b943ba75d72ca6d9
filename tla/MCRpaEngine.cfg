SPECIFICATION Spec
CONSTANTS
  Catalog <- MCCatalog
  Buckets <- MCBuckets
  Bucket <- MCBucket
  RecMax = 128
  Kinds = {"parse", "match"}
  StackSize = 60
  MaxRuns = 1
  MaxAborts = 0
INVARIANTS
  ReturnsMeaning
  RecordsMeaning
  CacheMeaning
  StackEmptied
  AbortMeansFailure
CHECK_DEADLOCK FALSE
