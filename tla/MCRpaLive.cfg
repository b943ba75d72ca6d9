SPECIFICATION LiveSpec
CONSTANTS
  Catalog <- LiveCatalog
  Buckets <- MCBuckets
  Bucket <- MCBucket
  RecMax = 128
  Kinds = {"match", "scan"}
  StackSize = 60
  MaxRuns = 1
  MaxAborts = 0
PROPERTY CallsReturn
CHECK_DEADLOCK FALSE
